---- MODULE Spec2Model ----
(***************************************************************************)
(* Connection lifecycle of the MCP layer of rokovo-cli.                    *)
(*                                                                         *)
(* MCPManager (the supervisor) owns a map of named MCPClient objects.      *)
(* Each MCPClient owns at most one protocol client handle and one          *)
(* transport handle (a subprocess).  connect() retries attemptConnection   *)
(* with exponential backoff; attemptConnection races the handshake and the *)
(* validating listTools probe against one timer.                           *)
(*                                                                         *)
(* McpManager is the later supervisor: it holds the clients the AI SDK      *)
(* creates (experimental_createMCPClient) and merges their tools.          *)
(* impl says which of the two supervisors a behaviour is about.            *)
(*                                                                         *)
(* LLMProcessor.analyze runs the phases of one analysis: one generateText  *)
(* call per phase, each followed by a flush of the telemetry exporter.     *)
(*                                                                         *)
(* An async function is modelled from one suspension point (await) to the  *)
(* next: mpc is the position of the single flow of control of the caller.  *)
(***************************************************************************)
EXTENDS Integers, Sequences, FiniteSets, TLC

\* ---------------------------------------------------------------- bounds
MaxOps == 3             \* initialize() / shutdown() calls on one supervisor
MaxRetriesOpt == 3      \* largest maxRetries option tried

\* ------------------------------------------------------ JavaScript values
\* A possibly-undefined option value: def = FALSE is `undefined`.
Undef == [def |-> FALSE, val |-> 0]
Num(n) == [def |-> TRUE, val |-> n]
UndefList == [def |-> FALSE, val |-> <<>>]
List(s) == [def |-> TRUE, val |-> s]

\* `a <= v` and `a < v` of JavaScript for a number a: any comparison with
\* undefined (NaN after conversion) is false.
JsLt(a, v) == v.def /\ a < v.val
\* variant: the loop test written with < instead of <=
JsLeq_strict(a, v) == v.def /\ a < v.val
JsLeq(a, v) == v.def /\ a <= v.val

\* Object spread {...defaults, ...options}: every own key of options wins,
\* also a key whose value is undefined.
Spread(defaults, options) ==
  [k \in (DOMAIN defaults) \cup (DOMAIN options) |->
     IF k \in DOMAIN options THEN options[k] ELSE defaults[k]]

\* Error messages are sequences of words; String.prototype.includes(word)
\* is a (case-sensitive) search for the word.
Includes(msg, w) == \E i \in 1..Len(msg) : msg[i] = w

\* ------------------------------------------------------------ environment
ServerNames == {"filesystem", "memory"}

\* How a server behaves when launched:
\*   invalid: the launch command cannot be started (every attempt fails)
\*   good:    handshake and probe are answered promptly
\*   flaky:   anything can happen on every attempt
ServerKinds == {"invalid", "good", "flaky"}

\* the servers McpManager.initializeServers has registrations for (those of
\* memory and thinking are commented out)
McpServerNames == {"filesystem", "memory", "thinking"}

\* tool catalogs the servers expose (filesystem and memory both expose
\* read_file)
ServerTools ==
  [n \in ServerNames \cup McpServerNames |->
     IF n = "filesystem" THEN {"read_file", "write_file", "list_directory"}
     ELSE IF n = "memory" THEN {"read_file", "store", "retrieve", "search"}
     ELSE {"sequentialthinking", "search"}]

VARIABLES
  impl,         \* the supervisor class: "MCPManager" or "McpManager"
  mgrOptions,   \* MCPManager.options as given to the constructor
  srvKind,      \* environment: behaviour of each server
  clients,      \* MCPManager.clients: insertion-ordered <<name, MCPClient>>
  orphans,      \* MCPClient objects nothing references any more that are
                \* still connected or still own an unclosed handle
  mpc,          \* position of the caller's flow of control
  enabledLocal, \* initialize(): local enabledServers
  idx,          \* initialize(): position of the for-of loop
  cur,          \* initialize(): the MCPClient `client` (NoClient outside)
  attempt,      \* connect(): loop variable
  lastError,    \* connect(): lastError (<<>> is null)
  delays,       \* connect(): the backoff delays slept so far, in order
  tries,        \* connect(): attemptConnection calls made so far
  probe,        \* connect(): what the validating probe of this attempt did
  mcpClients,   \* McpManager.mcpClients: insertion-ordered <<name, client>>
  mcpOrphans,   \* SDK clients dropped from mcpClients while still open
  lastTools,    \* the last McpManager.getTools() since the clients changed:
                \* whether it was called and its result, tool -> owner
  escaped,      \* the supervisor call whose error reached the caller last
  history,      \* the supervisor calls made so far, in order
  lastShutdown, \* what the last shutdown() did (cleared by initialize)
  lastRpc,      \* outcome of the last tool call issued through the supervisor
  exhausted,    \* the servers whose connect() has thrown in this supervisor
  variant,      \* which analyze() runs: "three" or "two" phases
  llmConfig,    \* LLMProcessor.config
  apc,          \* position of analyze()
  phase,        \* number of the phase analyze() is in (0 before the first)
  calls,        \* the generateText calls issued so far, in order
  results,      \* the results of the generateText calls that returned
  thrown,       \* the error analyze() threw
  output,       \* the text analyze() returned
  flushWarnings, \* failed exporter flushes analyze() warned about
  flushes,      \* exporter flushes analyze() attempted
  mc,           \* an MCPClient used directly: its fields; a handle is 0
                \* (null) or the number of the SDK pair it references
  sdk,          \* the transport / protocol client pairs created for mc
  th,           \* the calls in flight on mc: per caller, position and locals
  made,         \* calls made on mc so far
  tree,         \* the directory FileScanner is pointed at
  scanOptions,  \* FileScanner.options
  scanned,      \* what scan() did
  validated,    \* what the last validateDirectory() did
  cliVersion,   \* which KhodkarCLI runs: "current" or "earlier"
  faults,       \* environment: the calls of the analyze command that throw
  cpc,          \* position of the analyze command
  cliLog,       \* the calls the analyze command has invoked, in order
  exitCode,     \* how the process ended (-1 while it runs)
  rawConfig,    \* the llmConfig argument of new LLMProcessor(llmConfig)
  ppc,          \* position of the processor: construction and cleanup()
  otel,         \* the NodeSDK of the processor: "none", "started", "shutdown"
  exporterFlushed, \* cleanup() has flushed the exporter
  parsedConfig, \* LLMProcessor.config once assigned
  ctorThrown,   \* the error the constructor threw
  cleanupWarnings, \* the warnings of cleanup()
  requests,     \* the argument of batchAnalyze: file paths
  bpc,          \* position of batchAnalyze
  bi,           \* the loop variable i of batchAnalyze
  analysis,     \* per request: "idle", "pending" or how analyzeFile settled
  allRules,     \* the local allRules of batchAnalyze
  batchWarnings \* the files batchAnalyze warned about, in order

vars == <<impl, mgrOptions, srvKind, clients, orphans, mpc, enabledLocal, idx,
          cur, attempt, lastError, delays, tries, probe, mcpClients,
          mcpOrphans, lastTools, escaped, history, lastShutdown, lastRpc,
          exhausted, variant, llmConfig, apc, phase, calls, results, thrown, output,
          flushWarnings, flushes, mc, sdk, th, made, tree, scanOptions,
          scanned, validated, cliVersion, faults, cpc, cliLog, exitCode,
          rawConfig, ppc, otel, exporterFlushed, parsedConfig, ctorThrown,
          cleanupWarnings, requests, bpc, bi, analysis, allRules,
          batchWarnings>>

\* KhodkarCLI
cli == <<cliVersion, faults, cpc, cliLog, exitCode>>
\* construction and cleanup of the LLMProcessor
processor == <<rawConfig, ppc, otel, exporterFlushed, parsedConfig,
               ctorThrown, cleanupWarnings>>
\* LLMProcessor.batchAnalyze
batch == <<requests, bpc, bi, analysis, allRules, batchWarnings>>

\* an MCPClient driven through its own API
direct == <<mc, sdk, th, made>>
\* FileScanner
scanner == <<tree, scanOptions, scanned, validated>>
\* LLMProcessor
llm == <<variant, llmConfig, apc, phase, calls, results, thrown, output,
         flushWarnings, flushes>>
\* what no step of the MCP layer changes
env == <<impl, mgrOptions, srvKind, llm, direct, scanner, cli, processor,
         batch>>
\* the MCP layer
layer == <<impl, mgrOptions, srvKind, clients, orphans, mpc, enabledLocal, idx,
           cur, attempt, lastError, delays, tries, probe, mcpClients,
           mcpOrphans, lastTools, escaped, history, lastShutdown, lastRpc,
           exhausted, direct, scanner, cli, processor, batch>>
\* the supervisors and the pipeline
program == <<impl, mgrOptions, clients, orphans, mpc, enabledLocal, idx,
             cur, attempt, lastError, delays, tries, probe, mcpClients,
             mcpOrphans, lastTools, escaped, history, lastShutdown, lastRpc,
             exhausted, llm, cli, processor, batch>>
frame == <<enabledLocal, idx, attempt, lastError, delays, tries, probe>> \* locals
ghost == <<escaped, history, lastShutdown, lastRpc>> \* observations
mcp == <<mcpClients, mcpOrphans, lastTools>>         \* McpManager only
old == <<clients, orphans, cur, frame>>              \* MCPManager only

\* no LLMProcessor has been constructed
ProcessorNotBuilt ==
  /\ rawConfig = <<>>
  /\ ppc = "none"
  /\ otel = "none"
  /\ exporterFlushed = FALSE
  /\ parsedConfig = <<>>
  /\ ctorThrown = [name |-> "none"]
  /\ cleanupWarnings = 0

\* batchAnalyze has not been called
BatchNotUsed ==
  /\ requests = <<>>
  /\ bpc = "none"
  /\ bi = 0
  /\ analysis = <<>>
  /\ allRules = <<>>
  /\ batchWarnings = <<>>

\* ------------------------------------------------------------- MCPManager
\* MCPManager.initializeDefaultConfigs
configs ==
  [n \in ServerNames |-> [name |-> n, enabled |-> TRUE]]

DefaultEnabledServers == <<"filesystem", "memory">>

\* Map.get on the insertion-ordered entry list: position, 0 when absent
MapGet(m, k) ==
  IF \E i \in 1..Len(m) : m[i][1] = k
  THEN (CHOOSE i \in 1..Len(m) : m[i][1] = k)
  ELSE 0

\* Map.set: an existing key keeps its position, a new key is appended
MapSet(m, k, v) ==
  IF MapGet(m, k) = 0 THEN Append(m, <<k, v>>)
  ELSE [m EXCEPT ![MapGet(m, k)] = <<k, v>>]

\* no object (null)
NoClient == [name |-> "none"]

\* MCPManager.getClient: the held object, NoClient for null
getClient(serverName) ==
  IF MapGet(clients, serverName) = 0 THEN NoClient
  ELSE clients[MapGet(clients, serverName)][2]

\* MCPClient.isClientConnected
isClientConnected(c) == c.isConnected

\* MCPManager.isServerAvailable
isServerAvailable(serverName) ==
  IF getClient(serverName) # NoClient
  THEN isClientConnected(getClient(serverName))
  ELSE FALSE

\* MCPManager.getAvailableServers (as a set of names)
getAvailableServers ==
  {clients[i][1] : i \in {j \in 1..Len(clients) : isServerAvailable(clients[j][1])}}

\* -------------------------------------------------------------- MCPClient
retryDelayDefault == 1000
timeoutDefault == 10000
retryAttemptsDefault == 3

\* defaults of the MCPClient constructor
DefaultClientOptions ==
  [timeout |-> Num(timeoutDefault),
   retryAttempts |-> Num(retryAttemptsDefault),
   retryDelay |-> Num(retryDelayDefault)]

\* new MCPClient(config, options).  A handle is "null", or the state of the
\* SDK object: transport created / open (subprocess running) / closed,
\* client created / connected / closed.
MCPClient_constructor(config, options) ==
  [name |-> config.name,
   options |-> Spread(DefaultClientOptions, options),
   client |-> "null",
   transport |-> "null",
   isConnected |-> FALSE,
   leaked |-> 0]          \* transports dropped from this.transport unclosed

\* the options object MCPManager.initialize passes to the constructor
ForwardedOptions ==
  [timeout |-> mgrOptions.serverTimeout,
   retryAttempts |-> mgrOptions.maxRetries]

\* variant: cleanup that releases the handles but leaves the flag set
cleanup_keepsFlag(c, cErr, tErr) ==
  [c |-> [c EXCEPT !.client = "null", !.transport = "null"],
   closed |-> (IF c.client # "null" THEN 1 ELSE 0)
              + (IF c.transport # "null" THEN 1 ELSE 0),
   threw |-> FALSE]

\* MCPClient.cleanup.  cErr / tErr: client.close() / transport.close()
\* throws.  Both errors are swallowed and both handles are released.
cleanup(c, cErr, tErr) ==
  [c |-> [c EXCEPT !.isConnected = FALSE, !.client = "null", !.transport = "null"],
   closed |-> (IF c.client # "null" THEN 1 ELSE 0)
              + (IF c.transport # "null" THEN 1 ELSE 0),
   threw |-> FALSE]

\* MCPClient.disconnect
disconnect(c, cErr, tErr) ==
  IF ~c.isConnected THEN [c |-> c, closed |-> 0, threw |-> FALSE]
  ELSE cleanup(c, cErr, tErr)

\* a transport that was started and not closed is a running subprocess
OwnsOpenTransport(c) == c.transport = "open" \/ c.leaked > 0

\* an object that must be remembered once nothing references it
StillLive(c) == c.isConnected \/ OwnsOpenTransport(c) \/ c.client = "connected"

\* setTimeout(fn, t): an undefined or non-positive delay fires at once (1 ms),
\* before any subprocess can be spawned and answer a request
TimerImmediate(t) == ~t.def \/ t.val <= 1

\* messages of the errors the SDK and the timers raise
ConnectionTimeoutMsg == <<"Connection", "timeout">>
LaunchErrorMsg == <<"spawn", "ENOENT">>
HandshakeErrorMsg == <<"Connection", "closed">>
ToolCallTimeoutMsg == <<"Tool", "call", "timeout">>
\* errors the server reports about the call itself; the text is the
\* server's, and may mention any word
ServerReportedMsgs ==
  {<<"Tool", "not", "found">>, <<"Invalid", "timeout", "value">>}
RpcErrorMsgs ==
  {<<"Connection", "closed">>, <<"read", "ECONNRESET">>,
   <<"Request", "timed", "out">>} \cup ServerReportedMsgs

\* --------------------------------------------------------------- actions
NoCall ==
  [server |-> "none", method |-> "none", result |-> "none", msg |-> <<>>,
   requests |-> 0]
NoShutdown ==
  [threw |-> FALSE, invoked |-> 0, closed |-> 0, closeErrors |-> 0,
   leftOpen |-> 0, leftConnected |-> 0]

\* remember an object that is being dropped while it is still live
Drop(set, c) == IF c # NoClient /\ StillLive(c) THEN set \cup {c} ELSE set

\* MCPManager.initialize, up to the for-of loop
initialize ==
  /\ impl = "MCPManager"
  /\ mpc = "idle"
  /\ Len(history) < MaxOps
  /\ history' = Append(history, "initialize")
  /\ escaped' = "none"
  /\ lastShutdown' = NoShutdown
  /\ lastRpc' = NoCall
  /\ enabledLocal' = IF mgrOptions.enabledServers.def
                     THEN mgrOptions.enabledServers.val
                     ELSE DefaultEnabledServers
  /\ idx' = 1
  /\ mpc' = "for"
  /\ UNCHANGED <<env, exhausted, mcp, clients, orphans, cur, attempt, lastError, delays,
                 tries, probe>>

\* one iteration head of the for-of loop of initialize: return at the end of
\* the list, skip a name without an enabled config, else construct the
\* client and call connect()
initialize_for ==
  /\ mpc = "for"
  /\ IF idx > Len(enabledLocal)
     THEN /\ mpc' = "idle"
          /\ idx' = 0
          /\ enabledLocal' = <<>>
          /\ UNCHANGED cur
     ELSE LET serverName == enabledLocal[idx] IN
          IF serverName \notin DOMAIN configs \/ ~configs[serverName].enabled
          THEN /\ idx' = idx + 1
               /\ UNCHANGED <<mpc, enabledLocal, cur>>
          ELSE /\ cur' = MCPClient_constructor(configs[serverName],
                                               ForwardedOptions)
               /\ mpc' = "connect"
               /\ UNCHANGED <<idx, enabledLocal>>
  /\ UNCHANGED <<env, exhausted, mcp, ghost, clients, orphans, attempt, lastError, delays,
                 tries, probe>>

\* MCPClient.connect, entry: an already connected client returns at once
connect ==
  /\ mpc = "connect"
  /\ IF cur.isConnected
     THEN /\ mpc' = "connected"
          /\ UNCHANGED <<attempt, lastError>>
     ELSE /\ mpc' = "retry"
          /\ attempt' = 1
          /\ lastError' = <<>>
  /\ UNCHANGED <<env, exhausted, mcp, ghost, clients, orphans, enabledLocal, idx, cur, delays,
                 tries, probe>>

\* MCPClient.attemptConnection up to the race: a new transport and a new
\* protocol client replace the fields
attemptConnection(c) ==
  [c EXCEPT !.leaked = @ + (IF c.transport = "open" THEN 1 ELSE 0),
            !.transport = "created",
            !.client = "created"]

\* head of the retry loop of connect: another attempt, or the final throw
connect_loop ==
  /\ mpc = "retry"
  /\ IF JsLeq(attempt, cur.options.retryAttempts)
     THEN /\ cur' = attemptConnection(cur)
          /\ tries' = tries + 1
          /\ probe' = "none"
          /\ mpc' = "Connecting"
     ELSE /\ mpc' = "threw"
          /\ UNCHANGED <<cur, tries, probe>>
  /\ UNCHANGED <<env, exhausted, mcp, ghost, clients, orphans, enabledLocal, idx, attempt,
                 lastError, delays>>

\* client.connect(transport) resolves before the timer fires
HandshakeOk ==
  /\ mpc = "Connecting"
  /\ srvKind[cur.name] # "invalid"
  /\ ~TimerImmediate(cur.options.timeout)
  /\ cur' = [cur EXCEPT !.transport = "open", !.client = "connected"]
  /\ mpc' = "Validating"
  /\ UNCHANGED <<env, exhausted, mcp, ghost, clients, orphans, frame>>

\* client.connect(transport) rejects before the timer fires: the command
\* cannot be started, or the started process breaks the handshake
HandshakeFail ==
  /\ mpc = "Connecting"
  /\ \E msg \in {LaunchErrorMsg, HandshakeErrorMsg} :
       /\ msg = LaunchErrorMsg => srvKind[cur.name] \in {"invalid", "flaky"}
       /\ msg = HandshakeErrorMsg => srvKind[cur.name] = "flaky"
       /\ cur' = [cur EXCEPT !.transport =
                               IF msg = LaunchErrorMsg THEN @ ELSE "open"]
       /\ lastError' = msg
  /\ mpc' = "catch"
  /\ UNCHANGED <<env, exhausted, mcp, ghost, clients, orphans, enabledLocal, idx, attempt,
                 delays, tries, probe>>

\* the timer of the race fires first: during the handshake, or during the
\* validating probe
ConnectionTimeout ==
  /\ \/ /\ mpc = "Connecting"
        /\ \/ TimerImmediate(cur.options.timeout)
           \/ srvKind[cur.name] = "flaky"
        /\ cur' = [cur EXCEPT !.transport =
                                IF srvKind[cur.name] = "invalid" THEN @ ELSE "open"]
        /\ UNCHANGED probe
     \/ /\ mpc = "Validating"
        /\ srvKind[cur.name] = "flaky"
        /\ probe' = "hung"
        /\ UNCHANGED cur
  /\ lastError' = ConnectionTimeoutMsg
  /\ mpc' = "catch"
  /\ UNCHANGED <<env, exhausted, mcp, ghost, clients, orphans, enabledLocal, idx, attempt,
                 delays, tries>>

\* variant: the late handshake also marks the client connected
LateHandshake_marksConnected ==
  /\ mpc \in {"catch", "backoff", "cleanup"}
  /\ lastError = ConnectionTimeoutMsg
  /\ srvKind[cur.name] # "invalid"
  /\ cur.client = "created"
  /\ cur.transport = "open"
  /\ cur' = [cur EXCEPT !.client = "connected", !.isConnected = TRUE]
  /\ UNCHANGED <<env, exhausted, mcp, ghost, clients, orphans, mpc, frame>>

\* Promise.race does not cancel the loser: after 'Connection timeout' the
\* connectWithValidation of that attempt runs on, and its handshake may
\* still complete while connect() is in its catch block, before cleanup()
\* closes the client.  Nothing but the state of the SDK client changes.
LateHandshake ==
  /\ mpc \in {"catch", "backoff", "cleanup"}
  /\ lastError = ConnectionTimeoutMsg
  /\ srvKind[cur.name] # "invalid"
  /\ cur.client = "created"
  /\ cur.transport = "open"
  /\ cur' = [cur EXCEPT !.client = "connected"]
  /\ UNCHANGED <<env, exhausted, mcp, ghost, clients, orphans, mpc, frame>>

\* connectWithValidation: the listTools probe answers
ProbeOk ==
  /\ mpc = "Validating"
  /\ probe' = "ok"
  /\ mpc' = "attemptOk"
  /\ UNCHANGED <<env, exhausted, mcp, ghost, clients, orphans, cur, enabledLocal, idx, attempt,
                 lastError, delays, tries>>

\* variant: the probe error is not caught and fails the attempt
ProbeFail_rethrows ==
  /\ mpc = "Validating"
  /\ srvKind[cur.name] = "flaky"
  /\ probe' = "rejected"
  /\ lastError' = <<"listTools", "failed">>
  /\ mpc' = "catch"
  /\ UNCHANGED <<env, exhausted, mcp, ghost, clients, orphans, cur, enabledLocal, idx, attempt,
                 delays, tries>>

\* connectWithValidation: the listTools probe rejects; the catch logs a
\* warning and the function returns normally
ProbeFail ==
  /\ mpc = "Validating"
  /\ srvKind[cur.name] = "flaky"
  /\ probe' = "rejected"
  /\ mpc' = "attemptOk"
  /\ UNCHANGED <<env, exhausted, mcp, ghost, clients, orphans, cur, enabledLocal, idx, attempt,
                 lastError, delays, tries>>

\* connect, after attemptConnection resolved
connect_ok ==
  /\ mpc = "attemptOk"
  /\ cur' = [cur EXCEPT !.isConnected = TRUE]
  /\ mpc' = "connected"
  /\ UNCHANGED <<env, exhausted, mcp, ghost, clients, orphans, frame>>

\* variant: cleanup only on the retry path, not after the last attempt
connect_catch_noFinalCleanup ==
  /\ mpc = "catch"
  /\ IF JsLt(attempt, cur.options.retryAttempts)
     THEN /\ delays' = Append(delays,
                              cur.options.retryDelay.val * 2^(attempt - 1))
          /\ mpc' = "backoff"
          /\ UNCHANGED attempt
     ELSE /\ mpc' = "retry"
          /\ attempt' = attempt + 1
          /\ UNCHANGED delays
  /\ UNCHANGED <<env, exhausted, mcp, ghost, clients, orphans, cur, enabledLocal, idx,
                 lastError, tries, probe>>

\* connect, catch block up to the backoff sleep
connect_catch ==
  /\ mpc = "catch"
  /\ IF JsLt(attempt, cur.options.retryAttempts)
     THEN /\ delays' = Append(delays,
                              cur.options.retryDelay.val * 2^(attempt - 1))
          /\ mpc' = "backoff"
     ELSE /\ mpc' = "cleanup"
          /\ UNCHANGED delays
  /\ UNCHANGED <<env, exhausted, mcp, ghost, clients, orphans, cur, enabledLocal, idx, attempt,
                 lastError, tries, probe>>

\* variant: while the client sleeps, initialize goes on to the next server
backoff_yieldsToNext ==
  /\ mpc = "backoff"
  /\ orphans' = Drop(orphans, cur)
  /\ idx' = idx + 1
  /\ cur' = NoClient
  /\ attempt' = 0
  /\ lastError' = <<>>
  /\ delays' = <<>>
  /\ tries' = 0
  /\ probe' = "none"
  /\ mpc' = "for"
  /\ UNCHANGED <<env, exhausted, mcp, ghost, clients, enabledLocal>>

\* the backoff sleep elapses
backoff ==
  /\ mpc = "backoff"
  /\ mpc' = "cleanup"
  /\ UNCHANGED <<env, exhausted, mcp, ghost, clients, orphans, cur, frame>>

\* connect, catch block: await this.cleanup(), then the next iteration
connect_cleanup ==
  /\ mpc = "cleanup"
  /\ \E cErr, tErr \in BOOLEAN :
       LET r == cleanup(cur, cErr, tErr) IN
         /\ cur' = r.c
         /\ IF r.threw
            THEN /\ mpc' = "threw"
                 /\ UNCHANGED attempt
            ELSE /\ mpc' = "retry"
                 /\ attempt' = attempt + 1
  /\ UNCHANGED <<env, exhausted, mcp, ghost, clients, orphans, enabledLocal, idx, lastError,
                 delays, tries, probe>>

\* initialize: connect() returned; this.clients.set(serverName, client)
initialize_set ==
  /\ mpc = "connected"
  /\ clients' = MapSet(clients, enabledLocal[idx], cur)
  /\ orphans' = Drop(orphans, getClient(enabledLocal[idx]))
  /\ idx' = idx + 1
  /\ cur' = NoClient
  /\ attempt' = 0
  /\ lastError' = <<>>
  /\ delays' = <<>>
  /\ tries' = 0
  /\ probe' = "none"
  /\ mpc' = "for"
  /\ UNCHANGED <<env, exhausted, mcp, ghost, enabledLocal>>

\* variant: initialize without the try/catch around connect()
initialize_catch_rethrows ==
  /\ mpc = "threw"
  /\ orphans' = Drop(orphans, cur)
  /\ escaped' = "initialize"
  /\ idx' = 0
  /\ enabledLocal' = <<>>
  /\ cur' = NoClient
  /\ attempt' = 0
  /\ lastError' = <<>>
  /\ delays' = <<>>
  /\ tries' = 0
  /\ probe' = "none"
  /\ mpc' = "idle"
  /\ UNCHANGED <<env, exhausted, mcp, clients, history, lastShutdown, lastRpc>>

\* variant: the catch makes the loop try the same server once more
initialize_catch_retriesServer ==
  /\ mpc = "threw"
  /\ orphans' = Drop(orphans, cur)
  /\ cur' = NoClient
  /\ attempt' = 0
  /\ lastError' = <<>>
  /\ delays' = <<>>
  /\ tries' = 0
  /\ probe' = "none"
  /\ mpc' = "for"
  /\ exhausted' = exhausted \cup {cur.name}
  /\ UNCHANGED <<env, mcp, ghost, clients, enabledLocal, idx>>

\* initialize: connect() threw; the catch warns and the loop continues
initialize_catch ==
  /\ mpc = "threw"
  /\ orphans' = Drop(orphans, cur)
  /\ idx' = idx + 1
  /\ cur' = NoClient
  /\ attempt' = 0
  /\ lastError' = <<>>
  /\ delays' = <<>>
  /\ tries' = 0
  /\ probe' = "none"
  /\ mpc' = "for"
  /\ exhausted' = exhausted \cup {cur.name}
  /\ UNCHANGED <<env, mcp, ghost, clients, enabledLocal>>

\* the .catch handler shutdown attaches to every disconnect() promise turns
\* a rejection into a warning
shutdown_catches == TRUE

\* variant: a sequential loop that stops at the first close error
shutdown_targets_untilError(errs) ==
  {i \in 1..Len(clients) : \A j \in errs : i <= j}

\* the clients shutdown calls disconnect() on: Array.from(clients.values()),
\* whatever close errors occur (errs: positions whose close throws)
shutdown_targets(errs) == 1..Len(clients)

\* variant: shutdown that forgets clients.clear()
shutdown_clear_noop(m) == m

\* this.clients.clear()
shutdown_clear(m) == <<>>

\* MCPManager.shutdown: disconnect() on every held client, each with its own
\* catch; then clients.clear()
shutdown ==
  /\ impl = "MCPManager"
  /\ mpc = "idle"
  /\ Len(history) < MaxOps
  /\ history' = Append(history, "shutdown")
  /\ lastRpc' = NoCall
  /\ \E cErrs \in SUBSET (1..Len(clients)) :
     \E tErrs \in SUBSET (1..Len(clients)) :
       LET closing == {i \in 1..Len(clients) : clients[i][2].isConnected}
           errs == (cErrs \cup tErrs) \cap closing
           targets == shutdown_targets(errs)
           r == [i \in 1..Len(clients) |->
                   IF i \in targets
                   THEN disconnect(clients[i][2], i \in cErrs, i \in tErrs)
                   ELSE [c |-> clients[i][2], closed |-> 0, threw |-> FALSE]]
           live == {r[i].c : i \in {j \in 1..Len(clients) : StillLive(r[j].c)}}
       IN /\ clients' = shutdown_clear([i \in 1..Len(clients) |->
                                          <<clients[i][1], r[i].c>>])
          /\ orphans' = IF clients' = <<>> THEN orphans \cup live ELSE orphans
          /\ escaped' = IF \E i \in targets : r[i].threw /\ ~shutdown_catches
                        THEN "shutdown" ELSE "none"
          /\ lastShutdown' =
                [threw |-> \E i \in targets : r[i].threw /\ ~shutdown_catches,
                 invoked |-> Cardinality(targets),
                 closed |-> Cardinality({i \in targets : r[i].closed >= 1})
                            + Cardinality({i \in targets : r[i].closed >= 2}),
                 closeErrors |-> Cardinality(errs),
                 leftOpen |-> Cardinality({i \in 1..Len(clients) :
                                             OwnsOpenTransport(r[i].c)}),
                 leftConnected |-> Cardinality({i \in 1..Len(clients) :
                                                  r[i].c.isConnected})]
  /\ UNCHANGED <<env, exhausted, mcp, mpc, cur, frame>>

\* variant: the catch block tests for 'timeout' only
IsConnectionClass_timeoutOnly(msg) == Includes(msg, "timeout")

\* String.includes tests of the catch blocks of callTool and listTools
IsConnectionClass(msg) ==
  \/ Includes(msg, "timeout")
  \/ Includes(msg, "Connection")
  \/ Includes(msg, "ECONNRESET")

\* The four RPC methods of MCPClient
RpcMethods == {"callTool", "listTools", "getResource", "listResources"}

\* callTool and listTools put the request in a Promise.race with a timer;
\* getResource and listResources await the request alone
Raced(method) == method \in {"callTool", "listTools"}

\* the catch blocks of callTool and listTools test the message and clear
\* isConnected; those of getResource and listResources only wrap the error
Classifies(method) == method \in {"callTool", "listTools"}

\* the error the timer of the race rejects with
ListToolsTimeoutMsg == <<"List", "tools", "timeout">>
RpcTimeoutMsg(method) ==
  IF method = "callTool" THEN ToolCallTimeoutMsg ELSE ListToolsTimeoutMsg

\* variant: the guard tests the protocol client handle only
Request_guardsHandleOnly(method) ==
  /\ impl = "MCPManager"
  /\ mpc = "idle"
  /\ \E serverName \in ServerNames :
       LET c == getClient(serverName) IN
         IF c = NoClient
         THEN /\ lastRpc' = [server |-> serverName, method |-> method,
                             result |-> "notAvailable", msg |-> <<>>,
                             requests |-> 0]
              /\ mpc' = "idle"
         ELSE IF c.client = "null"
         THEN /\ lastRpc' = [server |-> serverName, method |-> method,
                             result |-> "notConnected", msg |-> <<>>,
                             requests |-> 0]
              /\ mpc' = "idle"
         ELSE /\ lastRpc' = [server |-> serverName, method |-> method,
                             result |-> "pending", msg |-> <<>>,
                             requests |-> 1]
              /\ mpc' = "rpc"
  /\ UNCHANGED <<env, exhausted, mcp, clients, orphans, cur, frame, escaped, history,
                 lastShutdown>>

\* An RPC method of the client the supervisor holds for a name, up to its
\* await: the guard (`!this.client || !this.isConnected` throws) and the
\* one request sent to the server
Request(method) ==
  /\ impl = "MCPManager"
  /\ mpc = "idle"
  /\ \E serverName \in ServerNames :
       LET c == getClient(serverName) IN
         IF c = NoClient
         THEN /\ lastRpc' = [server |-> serverName, method |-> method,
                             result |-> "notAvailable", msg |-> <<>>,
                             requests |-> 0]
              /\ mpc' = "idle"
         ELSE IF c.client = "null" \/ ~c.isConnected
         THEN /\ lastRpc' = [server |-> serverName, method |-> method,
                             result |-> "notConnected", msg |-> <<>>,
                             requests |-> 0]
              /\ mpc' = "idle"
         ELSE /\ lastRpc' = [server |-> serverName, method |-> method,
                             result |-> "pending", msg |-> <<>>,
                             requests |-> 1]
              /\ mpc' = "rpc"
  /\ UNCHANGED <<env, exhausted, mcp, clients, orphans, cur, frame, escaped, history,
                 lastShutdown>>

\* MCPClient.callTool reached through MCPManager.getClient (readFile,
\* storeMemory, ...)
callTool == Request("callTool")

\* MCPClient.listTools (as testConnections calls it)
listToolsRequest == Request("listTools")

\* MCPClient.getResource
getResource == Request("getResource")

\* MCPClient.listResources
listResources == Request("listResources")

\* the server answers the pending request: the method returns the result
RpcResolve ==
  /\ mpc = "rpc"
  /\ lastRpc' = [lastRpc EXCEPT !.result = "ok"]
  /\ mpc' = "idle"
  /\ UNCHANGED <<env, exhausted, mcp, clients, orphans, cur, frame, escaped, history,
                 lastShutdown>>

\* the catch block of the method for an error with message msg: callTool
\* and listTools clear isConnected for a timeout / connection message;
\* every method throws an MCPServerError wrapping the message
RpcCatch(msg) ==
  /\ lastRpc' = [lastRpc EXCEPT !.result = "failed", !.msg = msg]
  /\ clients' = [clients EXCEPT ![MapGet(clients, lastRpc.server)][2].isConnected =
                   IF Classifies(lastRpc.method) /\ IsConnectionClass(msg)
                   THEN FALSE ELSE @]
  /\ mpc' = "idle"
  /\ UNCHANGED <<env, exhausted, mcp, orphans, cur, frame, escaped, history,
                 lastShutdown>>

\* variant: the catch block sends the request again before giving up
RpcReject_retries ==
  /\ mpc = "rpc"
  /\ srvKind[lastRpc.server] = "flaky"
  /\ IF lastRpc.requests < 2
     THEN /\ lastRpc' = [lastRpc EXCEPT !.requests = @ + 1]
          /\ UNCHANGED <<env, exhausted, mcp, clients, orphans, mpc, cur, frame, escaped,
                         history, lastShutdown>>
     ELSE \E msg \in RpcErrorMsgs : RpcCatch(msg)

\* the request is rejected (the server answers with an error, or the
\* connection breaks): the catch block runs once, nothing is sent again
RpcReject ==
  /\ mpc = "rpc"
  /\ srvKind[lastRpc.server] = "flaky"
  /\ \E msg \in RpcErrorMsgs : RpcCatch(msg)

\* the timer of the race fires before the server answered (callTool and
\* listTools only): the catch block runs with the timeout message
RpcTimeout ==
  /\ mpc = "rpc"
  /\ srvKind[lastRpc.server] = "flaky"
  /\ Raced(lastRpc.method)
  /\ RpcCatch(RpcTimeoutMsg(lastRpc.method))

\* -------------------------------------------------------------- McpManager
McpServerName == "filesystem"

\* getTools has not been called since the clients last changed
NoTools == [called |-> FALSE, tools |-> <<>>]

\* McpManager.initializeServers up to the await: a transport is created and
\* experimental_createMCPClient starts the subprocess and the handshake
initializeServers ==
  /\ impl = "McpManager"
  /\ mpc = "idle"
  /\ Len(history) < MaxOps
  /\ history' = Append(history, "initializeServers")
  /\ escaped' = "none"
  /\ lastShutdown' = NoShutdown
  /\ lastTools' = NoTools
  /\ mpc' = "creating"
  /\ UNCHANGED <<env, exhausted, old, mcpClients, mcpOrphans, lastRpc>>

\* experimental_createMCPClient resolves: mcpClients.set('filesystem', ..)
createMCPClient_ok ==
  /\ mpc = "creating"
  /\ srvKind[McpServerName] # "invalid"
  /\ mcpClients' = MapSet(mcpClients, McpServerName,
                          [name |-> McpServerName, transport |-> "open"])
  /\ mcpOrphans' = IF MapGet(mcpClients, McpServerName) = 0 THEN mcpOrphans
                   ELSE mcpOrphans \cup
                          {mcpClients[MapGet(mcpClients, McpServerName)][2]}
  /\ mpc' = "idle"
  /\ UNCHANGED <<env, exhausted, old, lastTools, ghost>>

\* experimental_createMCPClient rejects (the SDK closes the transport it was
\* given); nothing catches the error in initializeServers
createMCPClient_fail ==
  /\ mpc = "creating"
  /\ srvKind[McpServerName] \in {"invalid", "flaky"}
  /\ escaped' = "initializeServers"
  /\ mpc' = "idle"
  /\ UNCHANGED <<env, exhausted, old, mcp, history, lastShutdown, lastRpc>>

\* variant: the merge keeps the first descriptor set under a name
RECURSIVE MergeTools_firstWins(_, _)
MergeTools_firstWins(m, k) ==
  IF k = 0 THEN <<>>
  ELSE LET prev == MergeTools_firstWins(m, k - 1)
           name == m[k][1]
       IN [t \in (DOMAIN prev) \cup ServerTools[name] |->
             IF t \in DOMAIN prev THEN prev[t] ELSE name]

\* the merge loop of getTools over the first k entries: a later client
\* overwrites a tool name an earlier one set
RECURSIVE MergeTools(_, _)
MergeTools(m, k) ==
  IF k = 0 THEN <<>>
  ELSE LET prev == MergeTools(m, k - 1)
           name == m[k][1]
       IN [t \in (DOMAIN prev) \cup ServerTools[name] |->
             IF t \in ServerTools[name] THEN name ELSE prev[t]]

\* McpManager.getTools: client.tools() of every held client, merged; an
\* error of client.tools() is not caught
getTools ==
  /\ impl = "McpManager"
  /\ mpc = "idle"
  /\ \E fails \in BOOLEAN :
       /\ fails => \E i \in 1..Len(mcpClients) : srvKind[mcpClients[i][1]] = "flaky"
       /\ IF fails
          THEN /\ escaped' = "getTools"
               /\ lastTools' = NoTools
          ELSE /\ escaped' = "none"
               /\ lastTools' = [called |-> TRUE,
                                tools |-> MergeTools(mcpClients, Len(mcpClients))]
  /\ UNCHANGED <<env, exhausted, old, mcpClients, mcpOrphans, mpc, history, lastShutdown,
                 lastRpc>>

\* client.close() of the SDK client: the transport is closed; err: the
\* call throws
mcpClose(c, err) == [c |-> [c EXCEPT !.transport = "closed"], threw |-> err]

\* variant: the map is not cleared
mcpClients_clear_noop(m) == m

\* this.mcpClients.clear()
mcpClients_clear(m) == <<>>

\* the try/catch around client.close() in shutdownServers turns an error
\* into a warning
shutdownServers_catches == TRUE

\* McpManager.shutdownServers: close() of every held client inside its own
\* try/catch, then mcpClients.clear(); the second loop finds the map empty
shutdownServers ==
  /\ impl = "McpManager"
  /\ mpc = "idle"
  /\ Len(history) < MaxOps
  /\ history' = Append(history, "shutdownServers")
  /\ lastTools' = NoTools
  /\ \E errs \in SUBSET (1..Len(mcpClients)) :
       LET r == [i \in 1..Len(mcpClients) |-> mcpClose(mcpClients[i][2], i \in errs)]
           threw == \E i \in 1..Len(mcpClients) :
                       r[i].threw /\ ~shutdownServers_catches
       IN /\ escaped' = IF threw THEN "shutdownServers" ELSE "none"
          /\ lastShutdown' =
                [threw |-> threw,
                 invoked |-> Len(r),
                 closed |-> Len(r),
                 closeErrors |-> Cardinality(errs),
                 leftOpen |-> Cardinality({i \in 1..Len(r) :
                                             r[i].c.transport = "open"}),
                 leftConnected |-> Cardinality({i \in 1..Len(r) :
                                                  r[i].c.transport = "open"})]
          /\ mcpOrphans' = mcpOrphans \cup
                {r[i].c : i \in {j \in 1..Len(r) : r[j].c.transport = "open"}}
          /\ mcpClients' = mcpClients_clear(
                [i \in 1..Len(mcpClients) |-> <<mcpClients[i][1], r[i].c>>])
  /\ UNCHANGED <<env, exhausted, old, mpc, lastRpc>>

\* ------------------------------------------------------------ LLMProcessor
\* LLMConfigSchema: maxSteps is a number from 1 to 500, 20 when absent
maxStepsMin == 1
maxStepsMax == 500
maxStepsDefault == 20

\* the configurations LLMConfigSchema.parse accepts, by their maxSteps
Configs == {[maxSteps |-> n] : n \in {maxStepsMin, maxStepsDefault, maxStepsMax}}

\* the phases of analyze(): three in the version with documentation
\* synthesis, two in the version without
NumPhases(v) == IF v = "three" THEN 3 ELSE 2

\* the local that holds the result of a phase
ResultName(k) ==
  IF k = 1 THEN "repositoryDiscoveryResult"
  ELSE IF k = 2 THEN "ruleExtractionResult"
  ELSE "documentationSynthesisResult"

\* stopSequences of the generateText call of a phase
StopSequence(k) ==
  IF k = 1 THEN "[REPOSITORY_DISCOVERY_COMPLETE]"
  ELSE IF k = 2 THEN "[RULE_EXTRACTION_COMPLETE]"
  ELSE "[DOCUMENTATION_SYNTHESIS_COMPLETE]"

\* Texts are sequences of lines.  The texts a generateText call may return:
Texts == {<<>>, <<"a">>, <<"b">>, <<"a", "b">>}

\* a local not assigned yet
NoResult == [done |-> FALSE, text |-> <<>>]
NoResults ==
  [n \in {ResultName(1), ResultName(2), ResultName(3)} |-> NoResult]

\* variant: every later prompt interpolates the discovery result
PriorResult_first(k) == ResultName(1)

\* the local whose text the prompt of phase k interpolates
PriorResult(k) == ResultName(k - 1)

\* the prompt option of the generateText call of phase k: the seed 'start'
\* for the first phase, a template around the text of the phase before for
\* the others
Prompt(k, res) ==
  IF k = 1 THEN <<"start">>
  ELSE IF k = 2
  THEN <<"Based on the repository discovery results:">>
         \o res[PriorResult(k)].text
         \o <<"", "Now proceed to extract business rules from the identified files.">>
  ELSE <<"Based on the rule extraction results:">>
         \o res[PriorResult(k)].text
         \o <<"", "Now synthesize all extracted rules into a coherent customer support guide.">>

\* the options of the generateText call of phase k
GenerateTextCall(k, res) ==
  [phase |-> k, prompt |-> Prompt(k, res), maxSteps |-> llmConfig.maxSteps,
   stopSequences |-> <<StopSequence(k)>>]

\* what generateText may throw: an Error with a message, or another value
Causes ==
  {[isError |-> TRUE, name |-> "APICallError", message |-> <<"rate", "limit">>],
   [isError |-> TRUE, name |-> "MCPClientError", message |-> <<"tool", "failed">>],
   [isError |-> FALSE, name |-> "none", message |-> <<>>]}

NoError == [name |-> "none"]
NoOutput == [done |-> FALSE, text |-> <<>>]

\* new LLMAnalysisError(`LLM analysis failed: ${message}`,
\*                      {originalError: error, config: this.config})
LLMAnalysisError(cause) ==
  [isError |-> TRUE,
   name |-> "LLMAnalysisError",
   code |-> "LLM_ANALYSIS_ERROR",
   message |-> <<"LLM analysis failed:">> \o
                 (IF cause.isError THEN cause.message
                  ELSE <<"Unknown error during LLM analysis">>),
   details |-> [originalError |-> cause, config |-> llmConfig]]

\* what reaches the catch block of analyze() as an LLMAnalysisError already:
\* generateText runs the caller's tools and model, and what they throw it
\* passes on
AnalysisErrors ==
  {[isError |-> TRUE,
    name |-> "LLMAnalysisError",
    code |-> "LLM_ANALYSIS_ERROR",
    message |-> <<"Failed to extract JSON from LLM response">>,
    details |-> [config |-> llmConfig]]}

\* analyze() has not been called
AnalyzeNotStarted ==
  /\ apc = "idle"
  /\ phase = 0
  /\ calls = <<>>
  /\ results = NoResults
  /\ thrown = NoError
  /\ output = NoOutput
  /\ flushWarnings = 0
  /\ flushes = 0

\* variant: analyze() starts the first two generateText calls together
analyze_parallel ==
  /\ apc = "idle"
  /\ calls' = <<GenerateTextCall(1, results), GenerateTextCall(2, results)>>
  /\ phase' = 2
  /\ apc' = "generateText"
  /\ UNCHANGED <<layer, variant, llmConfig, results, thrown, output,
                 flushWarnings, flushes>>

\* analyze() up to its first await: the generateText call of phase 1
analyze ==
  /\ apc = "idle"
  /\ calls' = <<GenerateTextCall(1, results)>>
  /\ phase' = 1
  /\ apc' = "generateText"
  /\ UNCHANGED <<layer, variant, llmConfig, results, thrown, output,
                 flushWarnings, flushes>>

\* the generateText call of the phase returns: its result is assigned and
\* the exporter flush that follows every phase starts
generateText_returns ==
  /\ apc = "generateText"
  /\ \E text \in Texts :
       results' = [results EXCEPT ![ResultName(phase)] =
                     [done |-> TRUE, text |-> text]]
  /\ apc' = "forceFlush"
  /\ UNCHANGED <<layer, variant, llmConfig, phase, calls, thrown, output,
                 flushWarnings, flushes>>

\* variant: the error of a phase is logged and the run goes on with an
\* empty result
generateText_throws_goesOn ==
  /\ apc = "generateText"
  /\ \E cause \in Causes : thrown' = LLMAnalysisError(cause)
  /\ results' = [results EXCEPT ![ResultName(phase)] =
                   [done |-> TRUE, text |-> <<>>]]
  /\ apc' = "forceFlush"
  /\ UNCHANGED <<layer, variant, llmConfig, phase, calls, output,
                 flushWarnings, flushes>>

\* variant: the catch block issues the call of the failed phase once more
generateText_throws_retries ==
  /\ apc = "generateText"
  /\ IF Len(calls) <= NumPhases(variant)
     THEN /\ calls' = Append(calls, GenerateTextCall(phase, results))
          /\ UNCHANGED <<apc, thrown>>
     ELSE /\ \E cause \in Causes : thrown' = LLMAnalysisError(cause)
          /\ apc' = "threw"
          /\ UNCHANGED calls
  /\ UNCHANGED <<layer, variant, llmConfig, phase, results, output,
                 flushWarnings, flushes>>

\* variant: the catch block wraps whatever it caught
generateText_throws_wrapsAll ==
  /\ apc = "generateText"
  /\ \E cause \in Causes \cup AnalysisErrors :
       thrown' = LLMAnalysisError(cause)
  /\ apc' = "threw"
  /\ UNCHANGED <<layer, variant, llmConfig, phase, calls, results, output,
                 flushWarnings, flushes>>

\* the generateText call of the phase throws: the catch block of analyze()
\* rethrows an LLMAnalysisError as it is and wraps anything else in a new
\* LLMAnalysisError
generateText_throws ==
  /\ apc = "generateText"
  /\ \E cause \in Causes \cup AnalysisErrors :
       thrown' = IF cause.name = "LLMAnalysisError" THEN cause
                 ELSE LLMAnalysisError(cause)
  /\ apc' = "threw"
  /\ UNCHANGED <<layer, variant, llmConfig, phase, calls, results, output,
                 flushWarnings, flushes>>

\* variant: analyze() returns the texts of all phases, one after the other
AfterFlush_returnsAll ==
  IF phase < NumPhases(variant)
  THEN /\ calls' = Append(calls, GenerateTextCall(phase + 1, results))
       /\ phase' = phase + 1
       /\ apc' = "generateText"
       /\ UNCHANGED output
  ELSE IF variant = "two" /\ apc = "forceFlush"
  THEN /\ apc' = "finalFlush"
       /\ UNCHANGED <<calls, phase, output>>
  ELSE /\ apc' = "returned"
       /\ output' = [done |-> TRUE,
                     text |-> results[ResultName(1)].text
                                \o results[ResultName(2)].text
                                \o results[ResultName(3)].text]
       /\ UNCHANGED <<calls, phase>>

\* what follows the flush after a phase: the call of the next phase; after
\* the last phase the extra flush of the two-phase version, or the return
\* of the last result's text
AfterFlush ==
  IF phase < NumPhases(variant)
  THEN /\ calls' = Append(calls, GenerateTextCall(phase + 1, results))
       /\ phase' = phase + 1
       /\ apc' = "generateText"
       /\ UNCHANGED output
  ELSE IF variant = "two" /\ apc = "forceFlush"
  THEN /\ apc' = "finalFlush"
       /\ UNCHANGED <<calls, phase, output>>
  ELSE /\ apc' = "returned"
       /\ output' = [done |-> TRUE, text |-> results[ResultName(phase)].text]
       /\ UNCHANGED <<calls, phase>>

\* exporter.forceFlush() resolves
forceFlush_ok ==
  /\ apc \in {"forceFlush", "finalFlush"}
  /\ flushes' = flushes + 1
  /\ AfterFlush
  /\ UNCHANGED <<layer, variant, llmConfig, results, thrown, flushWarnings>>

\* variant: the flush error is not caught inside and fails the run
forceFlush_catch_aborts ==
  /\ apc \in {"forceFlush", "finalFlush"}
  /\ flushes' = flushes + 1
  /\ flushWarnings' = flushWarnings + 1
  /\ thrown' = LLMAnalysisError([isError |-> TRUE, name |-> "Error",
                                 message |-> <<"flush", "failed">>])
  /\ apc' = "threw"
  /\ UNCHANGED <<layer, variant, llmConfig, phase, calls, results, output>>

\* exporter.forceFlush() rejects: the inner catch warns and analyze() goes on
forceFlush_catch ==
  /\ apc \in {"forceFlush", "finalFlush"}
  /\ flushes' = flushes + 1
  /\ flushWarnings' = flushWarnings + 1
  /\ AfterFlush
  /\ UNCHANGED <<layer, variant, llmConfig, results, thrown>>

\* ------------------------------------------- MCPClient, driven directly
\* The class is exported and getClient() hands its instances out: a caller
\* may call connect() and disconnect() on one, also before an earlier call
\* has settled.
MaxClientCalls == 2   \* connect() / disconnect() calls made on the client
MaxRequests == 7        \* most requests batchAnalyze is given

\* the callers
Threads == {1, 2}

\* new MCPClient(config, options) for the filesystem server; the handles
\* are references here: 0 is null, i is the i-th pair of sdk
DirectClient(options) ==
  [MCPClient_constructor(configs["filesystem"], options)
     EXCEPT !.client = 0, !.transport = 0]

\* new StdioClientTransport(...) and new Client(...)
NewPair == [transport |-> "created", client |-> "created"]

\* a caller with no call in flight
IdleThread ==
  [pc |-> "idle", op |-> "none", call |-> 0, attempt |-> 0, mine |-> 0,
   result |-> "none"]

\* the call of a caller has settled
Settled(thr, result) ==
  [thr EXCEPT !.pc = "idle", !.attempt = 0, !.mine = 0, !.result = result]

\* the client is not used directly
ClientNotUsed ==
  /\ mc = DirectClient(<<>>)
  /\ sdk = <<>>
  /\ th = [t \in Threads |-> IdleThread]
  /\ made = 0

\* MCPClient.connect, up to the loop
MCPClient_connect(t) ==
  /\ th[t].pc = "idle"
  /\ made < MaxClientCalls
  /\ made' = made + 1
  /\ th' = [th EXCEPT ![t] =
              IF mc.isConnected
              THEN [IdleThread EXCEPT !.op = "connect", !.call = made + 1,
                                      !.result = "returned"]
              ELSE [IdleThread EXCEPT !.op = "connect", !.call = made + 1,
                                      !.pc = "retry", !.attempt = 1]]
  /\ UNCHANGED <<program, srvKind, scanner, mc, sdk>>

\* head of the retry loop of connect: attemptConnection assigns a new
\* transport and a new protocol client to the fields, or connect throws
MCPClient_attemptConnection(t) ==
  /\ th[t].pc = "retry"
  /\ IF JsLeq(th[t].attempt, mc.options.retryAttempts)
     THEN /\ sdk' = Append(sdk, NewPair)
          /\ mc' = [mc EXCEPT !.transport = Len(sdk) + 1,
                              !.client = Len(sdk) + 1]
          /\ th' = [th EXCEPT ![t].pc = "Connecting",
                              ![t].mine = Len(sdk) + 1]
     ELSE /\ th' = [th EXCEPT ![t] = Settled(@, "threw")]
          /\ UNCHANGED <<mc, sdk>>
  /\ UNCHANGED <<program, srvKind, scanner, made>>

\* connectWithValidation: client.connect(transport), on the pair this
\* attempt created, resolves
MCPClient_handshake(t) ==
  /\ th[t].pc = "Connecting"
  /\ sdk[th[t].mine].transport # "closed"
  /\ sdk[th[t].mine].client # "closed"
  /\ sdk' = [sdk EXCEPT ![th[t].mine] =
                          [transport |-> "open", client |-> "connected"]]
  /\ th' = [th EXCEPT ![t].pc = "Validating"]
  /\ UNCHANGED <<program, srvKind, scanner, mc, made>>

\* client.connect(transport) rejects: the server breaks the handshake, or
\* the pair was closed under it; the subprocess may have been spawned
MCPClient_handshake_rejects(t) ==
  /\ th[t].pc = "Connecting"
  /\ \/ srvKind[mc.name] = "flaky"
     \/ sdk[th[t].mine].transport = "closed"
     \/ sdk[th[t].mine].client = "closed"
  /\ \E spawned \in BOOLEAN :
       sdk' = [sdk EXCEPT ![th[t].mine].transport =
                 IF spawned /\ @ = "created" THEN "open" ELSE @]
  /\ th' = [th EXCEPT ![t].pc = "catch"]
  /\ UNCHANGED <<program, srvKind, scanner, mc, made>>

\* the timer of the race fires during the handshake or the probe
MCPClient_timeout(t) ==
  /\ th[t].pc \in {"Connecting", "Validating"}
  /\ srvKind[mc.name] = "flaky"
  /\ sdk' = [sdk EXCEPT ![th[t].mine].transport =
               IF @ = "created" THEN "open" ELSE @]
  /\ th' = [th EXCEPT ![t].pc = "catch"]
  /\ UNCHANGED <<program, srvKind, scanner, mc, made>>

\* the validating probe answers or rejects; either way
\* connectWithValidation returns
MCPClient_probe(t) ==
  /\ th[t].pc = "Validating"
  /\ th' = [th EXCEPT ![t].pc = "attemptOk"]
  /\ UNCHANGED <<program, srvKind, scanner, mc, sdk, made>>

\* connect, after attemptConnection resolved
MCPClient_connected(t) ==
  /\ th[t].pc = "attemptOk"
  /\ mc' = [mc EXCEPT !.isConnected = TRUE]
  /\ th' = [th EXCEPT ![t] = Settled(@, "returned")]
  /\ UNCHANGED <<program, srvKind, scanner, sdk, made>>

\* connect, catch block up to the backoff sleep
MCPClient_catch(t) ==
  /\ th[t].pc = "catch"
  /\ th' = [th EXCEPT ![t].pc =
              IF JsLt(th[t].attempt, mc.options.retryAttempts)
              THEN "backoff" ELSE "cleanup"]
  /\ UNCHANGED <<program, srvKind, scanner, mc, sdk, made>>

\* the backoff sleep elapses
MCPClient_backoff(t) ==
  /\ th[t].pc = "backoff"
  /\ th' = [th EXCEPT ![t].pc = "cleanup"]
  /\ UNCHANGED <<program, srvKind, scanner, mc, sdk, made>>

\* where a caller goes on when cleanup() has returned
AfterCleanup(thr) ==
  IF thr.op = "connect"
  THEN [thr EXCEPT !.pc = "retry", !.attempt = @ + 1, !.mine = 0]
  ELSE Settled(thr, "returned")

\* cleanup, from the test of this.transport on
cleanup_transport(t, fields) ==
  IF fields.transport # 0
  THEN /\ sdk' = [sdk EXCEPT ![fields.transport].transport = "closed"]
       /\ th' = [th EXCEPT ![t].pc = "cleanupTransport"]
  ELSE /\ th' = [th EXCEPT ![t] = AfterCleanup(@)]
       /\ UNCHANGED sdk

\* MCPClient.cleanup up to its first await: the flag is cleared and
\* close() is called on the protocol client in the field
MCPClient_cleanup(t) ==
  /\ th[t].pc = "cleanup"
  /\ mc' = [mc EXCEPT !.isConnected = FALSE]
  /\ IF mc.client # 0
     THEN /\ sdk' = [sdk EXCEPT ![mc.client].client = "closed"]
          /\ th' = [th EXCEPT ![t].pc = "cleanupClient"]
     ELSE cleanup_transport(t, mc)
  /\ UNCHANGED <<program, srvKind, scanner, made>>

\* cleanup after client.close() settled: this.client = null, then close()
\* is called on the transport in the field
MCPClient_cleanup_client(t) ==
  /\ th[t].pc = "cleanupClient"
  /\ mc' = [mc EXCEPT !.client = 0]
  /\ cleanup_transport(t, mc)
  /\ UNCHANGED <<program, srvKind, scanner, made>>

\* cleanup after transport.close() settled: this.transport = null
MCPClient_cleanup_transport(t) ==
  /\ th[t].pc = "cleanupTransport"
  /\ mc' = [mc EXCEPT !.transport = 0]
  /\ th' = [th EXCEPT ![t] = AfterCleanup(@)]
  /\ UNCHANGED <<program, srvKind, scanner, sdk, made>>

\* MCPClient.disconnect
MCPClient_disconnect(t) ==
  /\ th[t].pc = "idle"
  /\ made < MaxClientCalls
  /\ made' = made + 1
  /\ th' = [th EXCEPT ![t] =
              IF ~mc.isConnected
              THEN [IdleThread EXCEPT !.op = "disconnect", !.call = made + 1,
                                      !.result = "returned"]
              ELSE [IdleThread EXCEPT !.op = "disconnect", !.call = made + 1,
                                      !.pc = "cleanup"]]
  /\ UNCHANGED <<program, srvKind, scanner, mc, sdk>>

\* a request on the connected client fails with a timeout or a connection
\* error: the catch clears the flag and closes nothing
MCPClient_request_catch ==
  /\ mc.isConnected
  /\ mc.client # 0
  /\ srvKind[mc.name] = "flaky"
  /\ mc' = [mc EXCEPT !.isConnected = FALSE]
  /\ UNCHANGED <<program, srvKind, scanner, sdk, th, made>>

\* ------------------------------------------------------------ FileScanner
MaxEntries == 2     \* entries of the scanned directory

defaultMaxFileSize == 1024 * 1024

\* the keys of languageMap, which is a Record<SupportedFileExtension, string>
languageMap ==
  [e \in {".ts", ".tsx", ".js", ".jsx", ".py", ".java", ".cs", ".cpp", ".c",
          ".go", ".rs", ".rb", ".php", ".swift", ".kt", ".scala", ".clj"} |->
     CASE e = ".ts" -> "TypeScript"
       [] e = ".tsx" -> "TypeScript React"
       [] e = ".js" -> "JavaScript"
       [] e = ".jsx" -> "JavaScript React"
       [] e = ".py" -> "Python"
       [] e = ".java" -> "Java"
       [] e = ".cs" -> "C#"
       [] e = ".cpp" -> "C++"
       [] e = ".c" -> "C"
       [] e = ".go" -> "Go"
       [] e = ".rs" -> "Rust"
       [] e = ".rb" -> "Ruby"
       [] e = ".php" -> "PHP"
       [] e = ".swift" -> "Swift"
       [] e = ".kt" -> "Kotlin"
       [] e = ".scala" -> "Scala"
       [] OTHER -> "Clojure"]

SupportedFileExtensions == DOMAIN languageMap

\* FileScanner.isSupportedFile
isSupportedFile(extension) == extension \in SupportedFileExtensions

\* FileScanner.getLanguageFromExtension
getLanguageFromExtension(extension) ==
  IF extension \in DOMAIN languageMap THEN languageMap[extension]
  ELSE "Unknown"

\* a file name: whether it starts with a dot, its stem, and what
\* path.extname gives for it ("" when there is none)
FileName(dot, stem, ext) == [dot |-> dot, stem |-> stem, ext |-> ext]

\* the message of the error fs.readdir / fs.stat rejects with
PermissionDenied == "Permission denied"

IndexTs == FileName(FALSE, "index", ".ts")
FileNames == {IndexTs, FileName(FALSE, "package", ".json"),
              FileName(TRUE, "env", "")}
DirNames == {FileName(FALSE, "src", ""), FileName(FALSE, "node_modules", ""),
             FileName(TRUE, "git", "")}
FileSizes == {1000, defaultMaxFileSize + 1}

\* a directory entry: Dirent kind and name, what fs.stat gives for a file,
\* what fs.readdir gives for a directory
Entry(kind, name, stat, size, readdir, entries) ==
  [kind |-> kind, name |-> name, stat |-> stat, size |-> size,
   readdir |-> readdir, entries |-> entries]

FileEntries ==
  {f \in {Entry("file", n, st, z, "ok", <<>>) :
            n \in FileNames, st \in {"ok", PermissionDenied}, z \in FileSizes} :
     /\ f.stat # "ok" => f.size = 1000
     /\ f.name # IndexTs => f.stat = "ok" /\ f.size = 1000}

\* sub-directories: unreadable, empty, or holding one file
SubDirEntries ==
  {Entry("dir", n, "ok", 0, PermissionDenied, <<>>) : n \in DirNames}
    \cup {Entry("dir", n, "ok", 0, "ok", es) :
            n \in DirNames, es \in {<<>>} \cup {<<f>> : f \in FileEntries}}

\* neither a file nor a directory
OtherEntries == {Entry("other", FileName(FALSE, "sock", ""), "ok", 0, "ok", <<>>)}

Entries == FileEntries \cup SubDirEntries \cup OtherEntries

\* what fs.readdir can list: entries with distinct names
Listings(n) ==
  {es \in UNION {[1..k -> Entries] : k \in 0..n} :
     \A i, j \in DOMAIN es : i # j => es[i].name # es[j].name}

\* options.directory
RootName == FileName(FALSE, "project", "")

Trees ==
  {Entry("dir", RootName, "ok", 0, PermissionDenied, <<>>)}
    \cup {Entry("dir", RootName, "ok", 0, "ok", es) : es \in Listings(MaxEntries)}

\* FileScanner.shouldIgnore.  Only the patterns given in the options are
\* modelled (DEFAULT_IGNORE_PATTERNS is imported); a pattern is a plain
\* name, which the unanchored RegExp finds in any path with that segment.
shouldIgnore(relativePath) ==
  \E i \in DOMAIN relativePath, j \in DOMAIN scanOptions.ignorePatterns.val :
    relativePath[i].stem = scanOptions.ignorePatterns.val[j]

\* the initial ScanResult of scan()
NoScanResult ==
  [files |-> <<>>, totalFiles |-> 0, totalSize |-> 0, skippedFiles |-> <<>>,
   errors |-> <<>>]

\* the message scanDirectory records for a failed readdir
ReadFailure(dirPath, message) ==
  <<"Failed to read directory", dirPath, message>>

\* FileScanner.processFile
processFile(entry, relativePath, result) ==
  LET maxSize == IF scanOptions.maxFileSize.def /\ scanOptions.maxFileSize.val # 0
                 THEN scanOptions.maxFileSize.val
                 ELSE defaultMaxFileSize
      extension == entry.name.ext
  IN  IF entry.stat # "ok"
      THEN [result EXCEPT !.errors =
              Append(@, <<"Failed to process file", relativePath, entry.stat>>)]
      ELSE IF entry.size > maxSize
      THEN [result EXCEPT !.skippedFiles =
              Append(@, <<relativePath, "too large", entry.size>>)]
      ELSE IF ~isSupportedFile(extension)
      THEN result
      ELSE [result EXCEPT
              !.files = Append(@, [filePath |-> relativePath,
                                   fileType |-> extension,
                                   language |-> getLanguageFromExtension(extension),
                                   size |-> entry.size,
                                   analysisStatus |-> "pending"]),
              !.totalFiles = @ + 1,
              !.totalSize = @ + entry.size]

\* variant: scanDirectory without the try/catch around readdir
readdir_catch_rethrows(dirPath, message, acc) ==
  [acc EXCEPT !.threw = TRUE, !.message = message]

\* scanDirectory: the catch around fs.readdir records the failure and returns
readdir_catch(dirPath, message, acc) ==
  [acc EXCEPT !.result.errors = Append(@, ReadFailure(dirPath, message))]

RECURSIVE scanDirectory(_, _, _)
RECURSIVE scanDirectory_for(_, _, _, _)

\* FileScanner.scanDirectory.  acc: the ScanResult being filled, and the
\* error that escaped so far.  dirPath starts with options.directory;
\* the relative path is the rest.
scanDirectory(dir, dirPath, acc) ==
  IF dir.readdir # "ok" THEN readdir_catch(dirPath, dir.readdir, acc)
  ELSE scanDirectory_for(dir.entries, 1, dirPath, acc)

\* scanDirectory: the loop over the entries, from the i-th on
scanDirectory_for(entries, i, dirPath, acc) ==
  IF i > Len(entries) \/ acc.threw THEN acc
  ELSE
    LET entry == entries[i]
        fullPath == Append(dirPath, entry.name)
        relativePath == Tail(fullPath)
        step ==
          IF ~scanOptions.includeHidden /\ entry.name.dot THEN acc
          ELSE IF shouldIgnore(relativePath)
          THEN [acc EXCEPT !.result.skippedFiles = Append(@, <<relativePath>>)]
          ELSE IF entry.kind = "dir" THEN scanDirectory(entry, fullPath, acc)
          ELSE IF entry.kind = "file"
          THEN [acc EXCEPT !.result = processFile(entry, relativePath, @)]
          ELSE acc
    IN  scanDirectory_for(entries, i + 1, dirPath, step)

\* KhodkarError subclasses and plain errors, as type and message
Err(type, message) == [type |-> type, message |-> message]
NoErr == Err("none", <<>>)

NoScan == [called |-> FALSE, error |-> NoErr, result |-> NoScanResult]

\* scan() has not been called and nothing was validated
ScanNotUsed ==
  /\ tree = Entry("dir", RootName, "ok", 0, "ok", <<>>)
  /\ scanOptions = [includeHidden |-> FALSE, ignorePatterns |-> UndefList,
                    maxFileSize |-> Undef]
  /\ scanned = NoScan
  /\ validated = [called |-> FALSE, stat |-> "none", error |-> NoErr]

\* FileScanner.scan
scan ==
  /\ ~scanned.called
  /\ LET r == scanDirectory(tree, <<tree.name>>,
                            [result |-> NoScanResult, threw |-> FALSE,
                             message |-> ""])
     IN  scanned' =
           IF r.threw
           THEN [called |-> TRUE,
                 error |-> Err("FileSystemError",
                               <<"Failed to scan directory", r.message>>),
                 result |-> NoScanResult]
           ELSE [called |-> TRUE, error |-> NoErr, result |-> r.result]
  /\ UNCHANGED <<program, srvKind, direct, tree, scanOptions, validated>>

\* what fs.stat gives for the path: a directory, another kind of file, or
\* a rejection
StatOutcomes == {"directory", "file", "ENOENT", "EACCES"}

\* validateDirectory, the try block
validateDirectory_try(stat) ==
  IF stat \in {"ENOENT", "EACCES"} THEN Err("Error", <<stat>>)
  ELSE IF stat # "directory"
  THEN Err("FileSystemError", <<"Path is not a directory">>)
  ELSE NoErr

\* variant: the catch block wraps whatever was thrown
validateDirectory_catch_wrapsAll(error) ==
  IF error = NoErr THEN NoErr
  ELSE Err("FileSystemError", <<"Cannot access directory">> \o error.message)

\* validateDirectory, the catch block: a FileSystemError is rethrown as it
\* is, anything else is wrapped
validateDirectory_catch(error) ==
  IF error = NoErr THEN NoErr
  ELSE IF error.type = "FileSystemError" THEN error
  ELSE Err("FileSystemError", <<"Cannot access directory">> \o error.message)

\* FileScanner.validateDirectory (static)
validateDirectory ==
  /\ \E stat \in StatOutcomes :
       validated' = [called |-> TRUE, stat |-> stat,
                     error |-> validateDirectory_catch(validateDirectory_try(stat))]
  /\ UNCHANGED <<program, srvKind, direct, tree, scanOptions, scanned>>

\* -------------------------------------------------------------- KhodkarCLI
\* what the command line program is built from: the MCP layer, the
\* analysis, the client and the scanner
base ==
  <<impl, mgrOptions, srvKind, clients, orphans, mpc, enabledLocal, idx, cur,
    attempt, lastError, delays, tries, probe, mcpClients, mcpOrphans,
    lastTools, escaped, history, lastShutdown, lastRpc, exhausted, llm,
    direct, scanner>>

\* everything but the command line program
components == <<base, processor, batch>>

\* the awaited calls of handleAnalyzeCommand, in program order: the current
\* version has no try block and calls shutdownServers last; the earlier
\* version has them in a try block, with shutdown in the finally
Body(version) ==
  IF version = "current"
  THEN <<"initializeServers", "getTools", "analyze", "cleanup",
         "shutdownServers">>
  ELSE <<"initialize", "validateDirectory", "scan", "batchAnalyze",
         "formatAndSave">>

\* the call that initializes the supervisor, and the one that shuts it down
InitializeCall(version) ==
  IF version = "current" THEN "initializeServers" ELSE "initialize"
ShutdownCall(version) ==
  IF version = "current" THEN "shutdownServers" ELSE "shutdown"

\* the calls that can throw: validateOptions (and, in the current version,
\* the construction of the processor) before the body, and the calls of
\* the body except MCPManager.initialize and LLMProcessor.cleanup, which
\* catch what they raise
Throwing(version) ==
  {"validateOptions"} \cup
    ({Body(version)[i] : i \in DOMAIN Body(version)}
       \ {"initialize", "cleanup"})

CliNotStarted ==
  /\ cliVersion = "current"
  /\ faults = {}
  /\ cpc = "start"
  /\ cliLog = <<>>
  /\ exitCode = -1

\* handleAnalyzeCommand up to its first awaited call: validateOptions,
\* and in the current version LLMConfigSchema.parse and new LLMProcessor
handleAnalyzeCommand ==
  /\ cpc = "start"
  /\ cliLog' = Append(cliLog, "validateOptions")
  /\ cpc' = IF "validateOptions" \in faults THEN "rejected" ELSE "body"
  /\ UNCHANGED <<components, cliVersion, faults, exitCode>>

\* the next awaited call of the body returns or throws
handleAnalyzeCommand_await ==
  /\ cpc = "body"
  /\ LET done == Len(cliLog) - 1
         call == Body(cliVersion)[done + 1]
     IN  /\ cliLog' = Append(cliLog, call)
         /\ cpc' = IF call \in faults
                   THEN (IF cliVersion = "current" THEN "rejected" ELSE "catch")
                   ELSE IF done + 1 < Len(Body(cliVersion)) THEN "body"
                   ELSE IF cliVersion = "current" THEN "returned"
                   ELSE "finally"
  /\ UNCHANGED <<components, cliVersion, faults, exitCode>>

\* earlier version, catch block: handleError prints the error and calls
\* process.exit(1); the process ends there, the finally block never runs
handleError ==
  /\ cpc = "catch"
  /\ cpc' = "ended"
  /\ exitCode' = 1
  /\ UNCHANGED <<components, cliVersion, faults, cliLog>>

\* earlier version, finally block after the try block completed
handleAnalyzeCommand_finally ==
  /\ cpc = "finally"
  /\ cliLog' = Append(cliLog, "shutdown")
  /\ cpc' = "returned"
  /\ UNCHANGED <<components, cliVersion, faults, exitCode>>

\* the promise of the command rejects: run() (earlier version) or
\* main().catch (current version) call process.exit(1)
main_catch ==
  /\ cpc = "rejected"
  /\ cpc' = "ended"
  /\ exitCode' = 1
  /\ UNCHANGED <<components, cliVersion, faults, cliLog>>

\* the command returned: main() resolves and the process ends
main_returns ==
  /\ cpc = "returned"
  /\ cpc' = "ended"
  /\ exitCode' = 0
  /\ UNCHANGED <<components, cliVersion, faults, cliLog>>

TypeOK ==
  /\ mpc \in {"idle", "for", "connect", "retry", "Connecting", "Validating",
              "attemptOk", "connected", "threw", "catch", "backoff", "cleanup",
              "creating", "rpc"}
  /\ idx \in Nat
  /\ Len(history) <= MaxOps
  /\ (mpc \in {"idle", "for", "creating", "rpc"}) = (cur = NoClient)
  /\ impl = "McpManager" => clients = <<>> /\ orphans = {}
  /\ impl = "MCPManager" => mcpClients = <<>> /\ mcpOrphans = {}

\* McpManager takes no options
NoOptions ==
  [enabledServers |-> UndefList, serverTimeout |-> Undef, maxRetries |-> Undef]

Init ==
  /\ ProcessorNotBuilt
  /\ BatchNotUsed
  /\ impl \in {"MCPManager", "McpManager"}
  /\ mgrOptions \in
       IF impl = "MCPManager"
       THEN [enabledServers : {UndefList, List(<<"memory", "filesystem">>),
                               List(<<"git", "filesystem">>)},
             serverTimeout : {Undef, Num(timeoutDefault)},
             maxRetries : {Undef, Num(1), Num(MaxRetriesOpt)}]
       ELSE {NoOptions}
  /\ srvKind \in [ServerNames -> ServerKinds]
  /\ mcpClients = <<>>
  /\ mcpOrphans = {}
  /\ lastTools = NoTools
  /\ escaped = "none"
  /\ clients = <<>>
  /\ orphans = {}
  /\ mpc = "idle"
  /\ enabledLocal = <<>>
  /\ idx = 0
  /\ cur = NoClient
  /\ attempt = 0
  /\ lastError = <<>>
  /\ delays = <<>>
  /\ tries = 0
  /\ probe = "none"
  /\ history = <<>>
  /\ lastShutdown = NoShutdown
  /\ lastRpc = NoCall
  /\ exhausted = {}
  /\ variant = "three"
  /\ llmConfig = [maxSteps |-> maxStepsDefault]
  /\ AnalyzeNotStarted
  /\ ClientNotUsed
  /\ CliNotStarted
  /\ ScanNotUsed

Next ==
  \/ initialize
  \/ initialize_for
  \/ connect
  \/ connect_loop
  \/ HandshakeOk
  \/ HandshakeFail
  \/ ConnectionTimeout
  \/ LateHandshake
  \/ ProbeOk
  \/ ProbeFail
  \/ connect_ok
  \/ connect_catch
  \/ backoff
  \/ connect_cleanup
  \/ initialize_set
  \/ initialize_catch
  \/ shutdown
  \/ callTool
  \/ listToolsRequest
  \/ getResource
  \/ listResources
  \/ RpcResolve
  \/ RpcReject
  \/ RpcTimeout
  \/ initializeServers
  \/ createMCPClient_ok
  \/ createMCPClient_fail
  \/ getTools
  \/ shutdownServers

Spec == Init /\ [][Next]_vars

\* ------------------------------------------------------------ properties
Last(seq) == seq[Len(seq)]

\* a supervisor call has returned and it was op
Returned(op) == mpc = "idle" /\ history # <<>> /\ Last(history) = op

\* the shutdown call of either supervisor has returned
ReturnedShutdown == Returned("shutdown") \/ Returned("shutdownServers")

ShutdownOps == {"shutdown", "shutdownServers"}
InitializeOps == {"initialize", "initializeServers"}

\* the names initialize() tries to connect
EnabledConfigured ==
  LET e == IF mgrOptions.enabledServers.def THEN mgrOptions.enabledServers.val
           ELSE DefaultEnabledServers
  IN {e[i] : i \in {j \in 1..Len(e) : e[j] \in DOMAIN configs /\ configs[e[j]].enabled}}

\* ------------------------------- LLMProcessor: construction and cleanup
\* strings are sequences of parts; <<>> is the empty string
BaseUrls ==
  {<<>>, <<"api.openai.com/v1">>, <<"https:", "//api.openai.com/v1">>}

\* new URL(s) throws unless s starts with a scheme
IsURL(s) == Len(s) >= 2 /\ s[1] \in {"https:", "http:"}

\* the arguments new LLMProcessor is given
RawConfigs ==
  [baseUrl : BaseUrls,
   apiKey : {<<>>, <<"sk-key">>},
   model : {<<>>, <<"gpt-4o-mini">>},
   maxSteps : {Undef} \cup {Num(n) : n \in {maxStepsMin - 1, maxStepsMin,
                                             maxStepsDefault, maxStepsMax,
                                             maxStepsMax + 1}}]

\* the issues LLMConfigSchema finds in a configuration, in schema order
Issues(raw) ==
  (IF raw.baseUrl = <<>> THEN <<"Base URL is required">> ELSE <<>>)
  \o (IF raw.apiKey = <<>> THEN <<"API key is required">> ELSE <<>>)
  \o (IF raw.model = <<>> THEN <<"Model name is required">> ELSE <<>>)
  \o (IF raw.maxSteps.def /\ raw.maxSteps.val < maxStepsMin
      THEN <<"Number must be greater than or equal to 1">> ELSE <<>>)
  \o (IF raw.maxSteps.def /\ raw.maxSteps.val > maxStepsMax
      THEN <<"Number must be less than or equal to 500">> ELSE <<>>)

\* LLMConfigSchema.parse of a configuration without issues
LLMConfigSchema_parse(raw) ==
  [baseUrl |-> raw.baseUrl, apiKey |-> raw.apiKey, model |-> raw.model,
   maxSteps |-> IF raw.maxSteps.def THEN raw.maxSteps.val
                ELSE maxStepsDefault]

\* new LLMAnalysisError(`LLM Configuration Error: ${message}`,
\*                      {config: llmConfig})
ConfigurationError(raw) ==
  [isError |-> TRUE,
   name |-> "LLMAnalysisError",
   code |-> "LLM_ANALYSIS_ERROR",
   message |-> <<"LLM Configuration Error:">> \o Issues(raw),
   details |-> [config |-> raw]]

\* new LLMAnalysisError('Invalid base URL format. ...', {baseUrl})
BaseUrlError(parsed) ==
  [isError |-> TRUE,
   name |-> "LLMAnalysisError",
   code |-> "LLM_ANALYSIS_ERROR",
   message |-> <<"Invalid base URL format.">>,
   details |-> [baseUrl |-> parsed.baseUrl]]

\* new LLMProcessor(llmConfig): the exporter and the NodeSDK are created
\* and the SDK is started, then the configuration is parsed and the base
\* URL checked
LLMProcessor_constructor ==
  /\ ppc = "new"
  /\ otel' = "started"
  /\ IF Issues(rawConfig) # <<>>
     THEN /\ ctorThrown' = ConfigurationError(rawConfig)
          /\ ppc' = "threw"
          /\ UNCHANGED parsedConfig
     ELSE /\ parsedConfig' = LLMConfigSchema_parse(rawConfig)
          /\ IF IsURL(parsedConfig'.baseUrl)
             THEN /\ ppc' = "constructed"
                  /\ UNCHANGED ctorThrown
             ELSE /\ ctorThrown' = BaseUrlError(parsedConfig')
                  /\ ppc' = "threw"
  /\ UNCHANGED <<base, cli, batch, rawConfig, exporterFlushed,
                 cleanupWarnings>>

\* cleanup() up to its first await: exporter.forceFlush()
LLMProcessor_cleanup ==
  /\ ppc = "constructed"
  /\ ppc' = "forceFlush"
  /\ UNCHANGED <<base, cli, batch, rawConfig, otel, exporterFlushed,
                 parsedConfig, ctorThrown, cleanupWarnings>>

\* forceFlush() resolves: cleanup() goes on to sdk.shutdown()
LLMProcessor_cleanup_forceFlush ==
  /\ ppc = "forceFlush"
  /\ exporterFlushed' = TRUE
  /\ ppc' = "shutdown"
  /\ UNCHANGED <<base, cli, batch, rawConfig, otel, parsedConfig,
                 ctorThrown, cleanupWarnings>>

\* sdk.shutdown() resolves: cleanup() returns
LLMProcessor_cleanup_shutdown ==
  /\ ppc = "shutdown"
  /\ otel' = "shutdown"
  /\ ppc' = "cleaned"
  /\ UNCHANGED <<base, cli, batch, rawConfig, exporterFlushed, parsedConfig,
                 ctorThrown, cleanupWarnings>>

\* forceFlush() or sdk.shutdown() rejects: the catch block of cleanup()
\* warns and cleanup() returns
LLMProcessor_cleanup_catch ==
  /\ ppc \in {"forceFlush", "shutdown"}
  /\ cleanupWarnings' = cleanupWarnings + 1
  /\ ppc' = "cleaned"
  /\ UNCHANGED <<base, cli, batch, rawConfig, otel, exporterFlushed,
                 parsedConfig, ctorThrown>>

\* one new LLMProcessor(llmConfig), with any configuration, and its cleanup
InitProcessor ==
  /\ impl = "McpManager"
  /\ mgrOptions = NoOptions
  /\ srvKind = [n \in ServerNames |-> "good"]
  /\ mcpClients = <<>>
  /\ mcpOrphans = {}
  /\ lastTools = NoTools
  /\ escaped = "none"
  /\ clients = <<>>
  /\ orphans = {}
  /\ mpc = "idle"
  /\ enabledLocal = <<>>
  /\ idx = 0
  /\ cur = NoClient
  /\ attempt = 0
  /\ lastError = <<>>
  /\ delays = <<>>
  /\ tries = 0
  /\ probe = "none"
  /\ history = <<>>
  /\ lastShutdown = NoShutdown
  /\ lastRpc = NoCall
  /\ exhausted = {}
  /\ variant = "three"
  /\ llmConfig = [maxSteps |-> maxStepsDefault]
  /\ AnalyzeNotStarted
  /\ ClientNotUsed
  /\ ScanNotUsed
  /\ CliNotStarted
  /\ BatchNotUsed
  /\ rawConfig \in RawConfigs
  /\ ppc = "new"
  /\ otel = "none"
  /\ exporterFlushed = FALSE
  /\ parsedConfig = <<>>
  /\ ctorThrown = [name |-> "none"]
  /\ cleanupWarnings = 0

NextProcessor ==
  \/ LLMProcessor_constructor
  \/ LLMProcessor_cleanup
  \/ LLMProcessor_cleanup_forceFlush
  \/ LLMProcessor_cleanup_shutdown
  \/ LLMProcessor_cleanup_catch

SpecProcessor == InitProcessor /\ [][NextProcessor]_vars

\* ------------------------------------------- LLMProcessor.batchAnalyze
\* const batchSize = 5
batchSize == 5

\* a request is known by its filePath; the paths are numbered in the order
\* of the requests
Requests(n) == [j \in 1..n |-> [filePath |-> j]]

\* an analyzeFile call: not made, in progress, or settled with the rules it
\* returned
NotCalled == [state |-> "idle", rules |-> <<>>]
Pending == [state |-> "pending", rules |-> <<>>]

\* the rules analyzeFile returns for a request: what generateObject found,
\* each with source.file set to the path of the request
RuleCounts == {1, 2}
rulesWithSource(request, n) ==
  [k \in 1..n |-> [id |-> k, source |-> [file |-> request.filePath]]]

\* requests.slice(i, i + batchSize), as positions in requests
Slice(i) == {j \in 1..Len(requests) : i < j /\ j <= i + batchSize}

\* batch.map(request => this.analyzeFile(request).catch(...)): every call
\* of the batch is made
Started(i) ==
  [j \in 1..Len(requests) |-> IF j \in Slice(i) THEN Pending ELSE analysis[j]]

\* batchResults.flat() for the positions from lo to hi, in that order
RECURSIVE Flat(_, _, _)
Flat(a, lo, hi) ==
  IF lo > hi THEN <<>> ELSE a[lo].rules \o Flat(a, lo + 1, hi)

\* the last position of the slice that starts after position i
SliceEnd(i) ==
  IF i + batchSize < Len(requests) THEN i + batchSize ELSE Len(requests)

\* batchAnalyze(requests) up to its first await: the calls of the first
\* batch are made and awaited together; with no requests it returns
batchAnalyze ==
  /\ bpc = "new"
  /\ bi' = 0
  /\ allRules' = <<>>
  /\ IF Len(requests) = 0
     THEN /\ bpc' = "returned"
          /\ UNCHANGED analysis
     ELSE /\ bpc' = "all"
          /\ analysis' = Started(0)
  /\ UNCHANGED <<base, cli, processor, requests, batchWarnings>>

\* analyzeFile of request j returns its rules
analyzeFile_returns(j) ==
  /\ analysis[j].state = "pending"
  /\ \E n \in RuleCounts :
       analysis' = [analysis EXCEPT ![j] =
                      [state |-> "resolved",
                       rules |-> rulesWithSource(requests[j], n)]]
  /\ UNCHANGED <<base, cli, processor, requests, bpc, bi, allRules,
                 batchWarnings>>

\* variant: the rejection of one analyzeFile reaches Promise.all and
\* batchAnalyze rejects
analyzeFile_throws_aborts(j) ==
  /\ analysis[j].state = "pending"
  /\ analysis' = [analysis EXCEPT ![j] = [state |-> "rejected",
                                          rules |-> <<>>]]
  /\ bpc' = "threw"
  /\ UNCHANGED <<base, cli, processor, requests, bi, allRules,
                 batchWarnings>>

\* analyzeFile of request j throws its LLMAnalysisError: the catch handler
\* of the batch warns and settles the call with no rules
analyzeFile_throws(j) ==
  /\ analysis[j].state = "pending"
  /\ analysis' = [analysis EXCEPT ![j] = [state |-> "rejected",
                                          rules |-> <<>>]]
  /\ batchWarnings' = Append(batchWarnings, requests[j].filePath)
  /\ UNCHANGED <<base, cli, processor, requests, bpc, bi, allRules>>

\* Promise.all of the batch resolves once every call of it has settled:
\* the results are flattened in the order of the batch and pushed; the
\* delay follows unless this was the last batch
Promise_all ==
  /\ bpc = "all"
  /\ \A j \in Slice(bi) : analysis[j].state \in {"resolved", "rejected"}
  /\ allRules' = allRules \o Flat(analysis, bi + 1, SliceEnd(bi))
  /\ IF bi + batchSize < Len(requests)
     THEN /\ bpc' = "delay"
          /\ UNCHANGED bi
     ELSE /\ bpc' = "returned"
          /\ bi' = bi + batchSize
  /\ UNCHANGED <<base, cli, processor, requests, analysis, batchWarnings>>

\* the delay between two batches is over: i += batchSize and the calls of
\* the next batch are made
setTimeout ==
  /\ bpc = "delay"
  /\ bi' = bi + batchSize
  /\ analysis' = Started(bi')
  /\ bpc' = "all"
  /\ UNCHANGED <<base, cli, processor, requests, allRules, batchWarnings>>

\* one batchAnalyze call with up to MaxRequests requests
InitBatch ==
  /\ impl = "McpManager"
  /\ mgrOptions = NoOptions
  /\ srvKind = [n \in ServerNames |-> "good"]
  /\ mcpClients = <<>>
  /\ mcpOrphans = {}
  /\ lastTools = NoTools
  /\ escaped = "none"
  /\ clients = <<>>
  /\ orphans = {}
  /\ mpc = "idle"
  /\ enabledLocal = <<>>
  /\ idx = 0
  /\ cur = NoClient
  /\ attempt = 0
  /\ lastError = <<>>
  /\ delays = <<>>
  /\ tries = 0
  /\ probe = "none"
  /\ history = <<>>
  /\ lastShutdown = NoShutdown
  /\ lastRpc = NoCall
  /\ exhausted = {}
  /\ variant = "three"
  /\ llmConfig = [maxSteps |-> maxStepsDefault]
  /\ AnalyzeNotStarted
  /\ ClientNotUsed
  /\ ScanNotUsed
  /\ CliNotStarted
  /\ ProcessorNotBuilt
  /\ \E n \in 0..MaxRequests :
       /\ requests = Requests(n)
       /\ analysis = [j \in 1..n |-> NotCalled]
  /\ bpc = "new"
  /\ bi = 0
  /\ allRules = <<>>
  /\ batchWarnings = <<>>

NextBatch ==
  \/ batchAnalyze
  \/ \E j \in 1..Len(requests) : analyzeFile_returns(j)
  \/ \E j \in 1..Len(requests) : analyzeFile_throws(j)
  \/ Promise_all
  \/ setTimeout

SpecBatch == InitBatch /\ [][NextBatch]_vars

listTools(serverName) ==
  LET c == getClient(serverName) IN
    IF c = NoClient THEN {}
    ELSE IF c.client = "null" \/ ~c.isConnected THEN {}
    ELSE ServerTools[serverName]

\* exactly one of the servers initialize() tries is unreachable and every
\* other one answers
ExactlyOneUnreachable ==
  /\ Cardinality({n \in EnabledConfigured : srvKind[n] = "invalid"}) = 1
  /\ \A n \in EnabledConfigured : srvKind[n] \in {"invalid", "good"}

\* C2: after the first initialize() with exactly one unreachable server,
\* every other configured server is available and its tools can be listed,
\* and no tools of the failing server can be listed.
C2_OthersConnected ==
  (Returned("initialize") /\ Len(history) = 1 /\ ExactlyOneUnreachable) =>
     \A n \in EnabledConfigured :
        IF srvKind[n] = "good"
        THEN n \in getAvailableServers /\ listTools(n) = ServerTools[n]
        ELSE n \notin getAvailableServers /\ listTools(n) = {}

\* C3: connect() of a client whose retryAttempts is a number n never makes
\* more than n attempts; when it fails it has made exactly n attempts and
\* slept n-1 times, each delay at least double the one before.
C3_RetryCountAndBackoff ==
  (cur # NoClient /\ cur.options.retryAttempts.def) =>
     /\ tries <= cur.options.retryAttempts.val
     /\ \A i \in 2..Len(delays) : delays[i] >= 2 * delays[i - 1]
     /\ (mpc = "threw" =>
           /\ tries = cur.options.retryAttempts.val
           /\ Len(delays) = tries - 1)

\* connect() gave up after three attempts and two doubling delays
C3_Witness ==
  /\ mpc = "threw"
  /\ tries = 3
  /\ delays = <<retryDelayDefault, 2 * retryDelayDefault>>

\* C4: a supervisor constructed without maxRetries and serverTimeout
\* creates clients that keep the defaults (3 attempts, 10 s), so a failing
\* server is attempted 3 times and a server that answers is connected.
C4_DefaultsSurvive ==
  (~mgrOptions.maxRetries.def /\ ~mgrOptions.serverTimeout.def) =>
     /\ cur # NoClient =>
           /\ cur.options.retryAttempts = Num(retryAttemptsDefault)
           /\ cur.options.timeout = Num(timeoutDefault)
     /\ mpc = "threw" => tries = retryAttemptsDefault
     /\ (Returned("initialize") /\ Len(history) = 1) =>
           \A n \in EnabledConfigured :
              srvKind[n] = "good" => n \in getAvailableServers

\* C5: when shutdown() has returned, no client it held still owns a
\* running transport, soft-disconnected clients included.
C5_ShutdownClosesEveryTransport ==
  Returned("shutdown") => lastShutdown.leftOpen = 0

\* C6: when connect() throws, the client owns no open transport and no
\* protocol client: every handle a failed attempt created has been closed.
C6_NoLeakOnConnectFailure ==
  mpc = "threw" =>
     /\ cur.transport = "null"
     /\ cur.client = "null"
     /\ cur.leaked = 0
     /\ ~cur.isConnected

\* connect() threw after attempts that had started the subprocess
C6_Witness ==
  /\ mpc = "threw"
  /\ tries = MaxRetriesOpt
  /\ lastError \in {ConnectionTimeoutMsg, HandshakeErrorMsg}
  /\ srvKind[cur.name] = "flaky"

\* C7: every shutdown (MCPManager.shutdown, McpManager.shutdownServers)
\* returns without error and leaves the supervisor with no client and no
\* available server; a shutdown that directly follows another one finds
\* nothing to disconnect and closes nothing.
C7_ShutdownIdempotent ==
  ReturnedShutdown =>
     /\ ~lastShutdown.threw
     /\ escaped = "none"
     /\ clients = <<>>
     /\ mcpClients = <<>>
     /\ getAvailableServers = {}
     /\ lastShutdown.leftConnected = 0
     /\ (Len(history) >= 2 /\ history[Len(history) - 1] \in ShutdownOps) =>
           /\ lastShutdown.invoked = 0
           /\ lastShutdown.closed = 0

\* two shutdown() calls in a row after both servers were connected
C7_Witness ==
  /\ Returned("shutdown")
  /\ history = <<"initialize", "shutdown", "shutdown">>
  /\ EnabledConfigured = ServerNames
  /\ \A n \in ServerNames : srvKind[n] = "good"
  /\ mgrOptions.maxRetries.def /\ mgrOptions.serverTimeout.def

\* no initialize call was made before this shutdown
NeverInitialized == \A i \in 1..Len(history) : history[i] \notin InitializeOps

\* the servers the supervisor is configured to connect
Configured == IF impl = "MCPManager" THEN EnabledConfigured ELSE {McpServerName}

\* the shutdown found fewer clients than servers the initialize call tried
PartiallyInitialized ==
  ~NeverInitialized /\ lastShutdown.invoked < Cardinality(Configured)

\* C8: a shutdown on a supervisor that was never initialized, or whose
\* initialize call connected only some of the servers, returns without
\* error and leaves every client it held disconnected and the map empty.
C8_ShutdownSafeWithoutFullInit ==
  (ReturnedShutdown /\ (NeverInitialized \/ PartiallyInitialized)) =>
     /\ ~lastShutdown.threw
     /\ escaped = "none"
     /\ lastShutdown.leftConnected = 0
     /\ Len(clients) = 0
     /\ Len(mcpClients) = 0
     /\ \A n \in ServerNames : ~isServerAvailable(n)

\* shutdown() after an initialize() that connected one of two servers
C8_Witness ==
  /\ Returned("shutdown")
  /\ history = <<"initialize", "shutdown">>
  /\ Cardinality(EnabledConfigured) = 2
  /\ lastShutdown.invoked = 1
  /\ lastShutdown.closed = 2

\* C9: a shutdown step (of either supervisor) calls disconnect / close on
\* every client the supervisor holds, whatever close errors occur, lets no
\* error escape, and leaves no client held or connected.
C9_ShutdownDisconnectsAll ==
  [][(history' # history /\ Last(history') \in ShutdownOps) =>
       /\ lastShutdown'.invoked = Len(clients) + Len(mcpClients)
       /\ ~lastShutdown'.threw
       /\ escaped' = "none"
       /\ lastShutdown'.leftConnected = 0
       /\ clients' = <<>>
       /\ mcpClients' = <<>>
       /\ mpc' = "idle"]_vars

\* shutdown() of two connected clients during which a close threw
C9_Witness ==
  /\ Returned("shutdown")
  /\ lastShutdown.closeErrors >= 1
  /\ lastShutdown.invoked = 2
  /\ lastShutdown.closed = 4

\* C10 as amended: a validating probe that rejects is only logged and the
\* attempt succeeds (the client becomes connected); a probe that has not
\* answered when the connection timer fires fails the attempt with
\* 'Connection timeout', like any other failed attempt.
C10_ProbeRejectIgnored ==
  /\ probe = "rejected" =>
        /\ mpc \in {"attemptOk", "connected"}
        /\ (mpc = "connected" => cur.isConnected)
  /\ probe = "hung" =>
        /\ mpc \in {"catch", "backoff", "cleanup", "retry", "threw"}
        /\ lastError = ConnectionTimeoutMsg
        /\ ~cur.isConnected

\* the probe rejected and connect() returned with the client connected
C10_Witness ==
  /\ probe = "rejected"
  /\ mpc = "connected"
  /\ cur.isConnected

\* C10 as stated: whatever the probe does after a successful handshake
\* (reject or never answer), the attempt succeeds.
C10_AnyProbeFailureIgnored ==
  probe \in {"rejected", "hung"} => mpc \in {"attemptOk", "connected"}

\* the client object the last RPC was issued on
RpcClient == getClient(lastRpc.server)

\* C11: every RPC method of the protocol client (callTool, listTools,
\* getResource, listResources) races its request against a timer, so a
\* pending request of any method can always end by the timer firing.
C11_EveryRpcRaced ==
  mpc = "rpc" => Raced(lastRpc.method)

\* the messages of the timeout / connection-reset class a callTool can fail
\* with
SoftDisconnectMsgs ==
  {ToolCallTimeoutMsg, <<"read", "ECONNRESET">>, <<"Connection", "closed">>}

\* C12: a callTool that fails with a timeout or connection-reset class of
\* error clears the connected flag of its client and changes nothing else
\* of it (protocol client and transport stay as they were, nothing is
\* closed or dropped), and the error reaches the caller.
C12_SoftDisconnect ==
  [][(mpc = "rpc" /\ mpc' = "idle" /\ lastRpc.method = "callTool"
        /\ lastRpc'.msg \in SoftDisconnectMsgs) =>
       /\ lastRpc'.result = "failed"
       /\ clients' = [clients EXCEPT
                        ![MapGet(clients, lastRpc.server)][2].isConnected = FALSE]
       /\ getClient(lastRpc.server).isConnected
       /\ orphans' = orphans]_vars

\* a callTool failed with ECONNRESET: the client is marked disconnected
\* while it still owns its protocol client and its open transport
C12_Witness ==
  /\ mpc = "idle"
  /\ lastRpc.method = "callTool"
  /\ lastRpc.result = "failed"
  /\ lastRpc.msg = <<"read", "ECONNRESET">>
  /\ ~RpcClient.isConnected
  /\ RpcClient.client = "connected"
  /\ RpcClient.transport = "open"

\* C13: one invocation of an RPC method sends at most one request: exactly
\* one while it is pending and when it returned or failed, none when its
\* guard threw.
C13_NoRpcRetry ==
  /\ lastRpc.requests <= 1
  /\ lastRpc.result \in {"pending", "ok", "failed"} => lastRpc.requests = 1
  /\ lastRpc.result \in {"notAvailable", "notConnected"} => lastRpc.requests = 0

\* a listTools and a callTool have failed after their single request
C13_Witness ==
  /\ lastRpc.method \in {"callTool", "listTools"}
  /\ lastRpc.result = "failed"
  /\ lastRpc.msg \in {<<"Tool", "not", "found">>, ListToolsTimeoutMsg}
  /\ lastRpc.requests = 1

\* ------------------------------------------------- getTools on any client map
\* the maps of n clients created one after the other, each under its own
\* name, in the order they were set
RECURSIVE ClientMaps(_)
ClientMaps(n) ==
  IF n = 0 THEN {<<>>}
  ELSE LET shorter == ClientMaps(n - 1) IN
         shorter \cup
         {Append(m, <<name, [name |-> name, transport |-> "open"]>>) :
            <<m, name>> \in
               {x \in shorter \X McpServerNames :
                  \A i \in 1..Len(x[1]) : x[1][i][1] # x[2]}}

\* McpManager holding any such map
InitTools ==
  /\ ProcessorNotBuilt
  /\ BatchNotUsed
  /\ impl = "McpManager"
  /\ mgrOptions = NoOptions
  /\ srvKind \in [McpServerNames -> {"good", "flaky"}]
  /\ mcpClients \in ClientMaps(Cardinality(McpServerNames))
  /\ mcpOrphans = {}
  /\ lastTools = NoTools
  /\ escaped = "none"
  /\ clients = <<>>
  /\ orphans = {}
  /\ mpc = "idle"
  /\ enabledLocal = <<>>
  /\ idx = 0
  /\ cur = NoClient
  /\ attempt = 0
  /\ lastError = <<>>
  /\ delays = <<>>
  /\ tries = 0
  /\ probe = "none"
  /\ history = <<>>
  /\ lastShutdown = NoShutdown
  /\ lastRpc = NoCall
  /\ exhausted = {}
  /\ variant = "three"
  /\ llmConfig = [maxSteps |-> maxStepsDefault]
  /\ AnalyzeNotStarted
  /\ ClientNotUsed
  /\ CliNotStarted
  /\ ScanNotUsed

NextTools ==
  \/ getTools
  \/ shutdownServers

SpecTools == InitTools /\ [][NextTools]_vars

\* the servers McpManager holds an open client of
McpConnected ==
  {mcpClients[i][1] : i \in {j \in 1..Len(mcpClients) :
                               mcpClients[j][2].transport = "open"}}

\* C14: the result of a getTools() call holds tools of connected servers
\* only, each under the name of a server that exposes it; every client the
\* supervisor holds is connected, and after shutdownServers none is, so a
\* getTools() after a failed connect or a shutdown returns none of the
\* tools of the server that left.
C14_ToolsOnlyOfConnected ==
  /\ \A i \in 1..Len(mcpClients) : mcpClients[i][2].transport = "open"
  /\ Returned("shutdownServers") => McpConnected = {}
  /\ lastTools.called =>
        /\ \A t \in DOMAIN lastTools.tools :
              /\ lastTools.tools[t] \in McpConnected
              /\ t \in ServerTools[lastTools.tools[t]]
        /\ \A n \in McpConnected : ServerTools[n] \subseteq DOMAIN lastTools.tools

\* getTools() was called after a shutdown that closed a connected server
\* and returned no tool
C14_Witness ==
  /\ Returned("shutdownServers")
  /\ lastShutdown.invoked >= 1
  /\ lastTools.called
  /\ DOMAIN lastTools.tools = {}

\* getTools() returned the tools of the connected filesystem server
C14_WitnessConnected ==
  /\ Returned("initializeServers")
  /\ lastTools.called
  /\ DOMAIN lastTools.tools = ServerTools[McpServerName]

\* position of a server in the order the clients were connected
ConnectedAt(name) == CHOOSE i \in 1..Len(mcpClients) : mcpClients[i][1] = name

\* the held servers that expose tool t
Exposing(t) == {n \in McpConnected : t \in ServerTools[n]}

\* C15: the result of getTools() has exactly one entry for every tool name
\* a connected server exposes, and for a name several connected servers
\* expose it is the entry of the one connected last; the call raises no
\* error for the collision.
C15_LaterServerWins ==
  lastTools.called =>
     /\ escaped = "none"
     /\ DOMAIN lastTools.tools = UNION {ServerTools[n] : n \in McpConnected}
     /\ \A t \in DOMAIN lastTools.tools :
           /\ lastTools.tools[t] \in Exposing(t)
           /\ \A n \in Exposing(t) : ConnectedAt(n) <= ConnectedAt(lastTools.tools[t])

\* memory connected after filesystem, both expose read_file, and getTools()
\* returned memory's read_file
C15_Witness ==
  /\ lastTools.called
  /\ Len(mcpClients) >= 2
  /\ mcpClients[1][1] = "filesystem"
  /\ mcpClients[2][1] = "memory"
  /\ lastTools.tools["read_file"] = "memory"
  /\ lastTools.tools["write_file"] = "filesystem"

\* --------------------------------------------------- one run of analyze()
\* one analysis run on a processor with any accepted configuration; the MCP
\* layer is at rest
InitAnalyze ==
  /\ ProcessorNotBuilt
  /\ BatchNotUsed
  /\ impl = "McpManager"
  /\ mgrOptions = NoOptions
  /\ srvKind = [n \in ServerNames |-> "good"]
  /\ mcpClients = <<>>
  /\ mcpOrphans = {}
  /\ lastTools = NoTools
  /\ escaped = "none"
  /\ clients = <<>>
  /\ orphans = {}
  /\ mpc = "idle"
  /\ enabledLocal = <<>>
  /\ idx = 0
  /\ cur = NoClient
  /\ attempt = 0
  /\ lastError = <<>>
  /\ delays = <<>>
  /\ tries = 0
  /\ probe = "none"
  /\ history = <<>>
  /\ lastShutdown = NoShutdown
  /\ lastRpc = NoCall
  /\ exhausted = {}
  /\ variant \in {"three", "two"}
  /\ llmConfig \in Configs
  /\ AnalyzeNotStarted
  /\ ClientNotUsed
  /\ CliNotStarted
  /\ ScanNotUsed

NextAnalyze ==
  \/ analyze
  \/ generateText_returns
  \/ generateText_throws
  \/ forceFlush_ok
  \/ forceFlush_catch

SpecAnalyze == InitAnalyze /\ [][NextAnalyze]_vars

\* the phases whose generateText call has returned
DonePhases == {k \in 1..3 : results[ResultName(k)].done}

\* the generateText calls issued and not yet returned or failed
InProgress ==
  Len(calls) - Cardinality(DonePhases) - (IF thrown = NoError THEN 0 ELSE 1)

\* C16: the generateText calls of a run are issued in the order of the
\* phases, the call of phase k+1 only after the call of phase k returned
\* its result, and at most one call is in progress at any time; a run that
\* returns has run every phase.
C16_PhasesInOrder ==
  /\ \A i \in 1..Len(calls) : calls[i].phase = i
  /\ \A i \in 2..Len(calls) : results[ResultName(i - 1)].done
  /\ InProgress \in {0, 1}
  /\ (apc = "generateText") = (InProgress = 1)
  /\ apc = "returned" => DonePhases = 1..NumPhases(variant)

\* the third phase is generating after the first two returned
C16_Witness ==
  /\ apc = "generateText"
  /\ phase = 3
  /\ DonePhases = {1, 2}
  /\ Len(calls) = 3

\* C17: once the generateText call of a phase has thrown, analyze() has
\* failed: it returns no text, the failing call is the last one issued and
\* no phase after it has a result.
C17_FailFast ==
  thrown # NoError =>
     /\ apc = "threw"
     /\ ~output.done
     /\ Len(calls) = phase
     /\ DonePhases = 1..(phase - 1)

\* phase 1 of the three-phase run threw: phases 2 and 3 were never called
C17_Witness ==
  /\ apc = "threw"
  /\ variant = "three"
  /\ phase = 1
  /\ Len(calls) = 1
  /\ DonePhases = {}

\* C18: the error analyze() throws when a phase fails carries the index of
\* the failing phase and the number of steps consumed, together with the
\* underlying cause.
C18_ErrorCarriesPhaseAndSteps ==
  apc = "threw" =>
     /\ \/ thrown \in AnalysisErrors
        \/ thrown.details.originalError \in Causes
     /\ \E k \in DOMAIN thrown.details : k \in {"phase", "phaseIndex"}
     /\ \E k \in DOMAIN thrown.details : k \in {"steps", "stepCount", "stepsUsed"}

\* text t occurs in text p as a run of consecutive lines
IsSubstring(t, p) ==
  \E off \in 0..(Len(p) - Len(t)) : \A j \in 1..Len(t) : p[off + j] = t[j]

\* C19: the prompt of the first phase is the seed 'start'; the prompt of
\* every later phase contains the result text of the phase right before it.
C19_PromptThreadsPriorText ==
  \A i \in 1..Len(calls) :
     IF i = 1 THEN calls[i].prompt = <<"start">>
     ELSE /\ results[ResultName(i - 1)].done
          /\ IsSubstring(results[ResultName(i - 1)].text, calls[i].prompt)

\* the third phase was called after two phases with different texts
C19_Witness ==
  /\ Len(calls) = 3
  /\ results[ResultName(1)].text = <<"a">>
  /\ results[ResultName(2)].text = <<"a", "b">>
  /\ calls[2].prompt[2] = "a"
  /\ calls[3].prompt[3] = "b"

\* C21: a flush of the exporter is attempted after every phase that
\* completed, before the next generateText call is issued; a flush that
\* fails is only warned about: the step neither throws nor touches a
\* result, and the call of the next phase is issued.
C21_FlushBestEffort ==
  [][/\ flushes' >= Len(calls') - 1
     /\ flushWarnings' > flushWarnings =>
          /\ apc \in {"forceFlush", "finalFlush"}
          /\ thrown' = NoError
          /\ apc' # "threw"
          /\ results' = results
          /\ phase < NumPhases(variant) =>
               /\ apc' = "generateText"
               /\ calls' = Append(calls, GenerateTextCall(phase + 1, results))]_vars

\* a three-phase run returned although two of its flushes failed
C21_Witness ==
  /\ apc = "returned"
  /\ variant = "three"
  /\ flushWarnings >= 2
  /\ flushes = 3
  /\ Len(calls) = 3

\* C22: what analyze() returns is exactly the text of the last phase of its
\* list (documentation synthesis of three phases, rule extraction of two),
\* whatever the texts of the earlier phases were.
C22_ReturnsFinalText ==
  apc = "returned" =>
     /\ output.done
     /\ thrown = NoError
     /\ output.text =
          IF variant = "three" THEN results["documentationSynthesisResult"].text
          ELSE results["ruleExtractionResult"].text

\* a three-phase run returned the text of its last phase, which differs
\* from the texts of the first two
C22_Witness ==
  /\ apc = "returned"
  /\ variant = "three"
  /\ results["repositoryDiscoveryResult"].text = <<"a">>
  /\ results["ruleExtractionResult"].text = <<"a", "b">>
  /\ output.text = <<"b">>

\* C23: no generateText call is issued twice in a run (every new call is
\* for a phase no earlier call was for), and a generateText call in
\* progress ends in one of two ways only: its result is assigned, or
\* analyze() throws an LLMAnalysisError wrapping the error, with no further
\* call issued.
C23_NoRetryAlwaysSurfaced ==
  [][/\ calls' # calls =>
          /\ Len(calls') = Len(calls) + 1
          /\ \A i \in 1..Len(calls) : calls[i].phase # Last(calls').phase
     /\ (apc = "generateText" /\ apc' # "forceFlush") =>
          /\ apc' = "threw"
          /\ thrown'.name = "LLMAnalysisError"
          /\ \/ thrown' \in AnalysisErrors
             \/ thrown'.details.originalError \in Causes
          /\ calls' = calls
          /\ ~output'.done]_vars

\* the second phase threw after the first had returned
C23_Witness ==
  /\ apc = "threw"
  /\ phase = 2
  /\ Len(calls) = 2
  /\ thrown.details.originalError.message = <<"tool", "failed">>

\* the servers initialize() has not reached yet: configured names later in
\* the list than the one being connected
Waiting ==
  {enabledLocal[j] : j \in {i \in (idx + 1)..Len(enabledLocal) :
                              /\ enabledLocal[i] \in DOMAIN configs
                              /\ configs[enabledLocal[i]].enabled}}

\* C24 as stated: the backoff of one client blocks no other server, so
\* while a client waits in backoff no configured server is still waiting
\* for its connection attempt to start.
C24_BackoffDoesNotBlock ==
  mpc = "backoff" => Waiting = {}

\* C24 as amended: initialize() connects the servers one after the other.
\* The connect() of a server starts only at the head of the loop, and the
\* loop moves on to the next name only when the name was skipped or the
\* connect() of the current server has returned or thrown; in particular
\* not while the client attempts, waits in backoff or cleans up.
C24_InitializeIsSequential ==
  [][/\ (cur = NoClient /\ cur' # NoClient) => mpc = "for"
     /\ (idx' # idx /\ mpc # "idle") => mpc \in {"for", "connected", "threw"}
     /\ mpc \in {"retry", "Connecting", "Validating", "attemptOk", "catch",
                 "backoff", "cleanup"} =>
          /\ cur'.name = cur.name
          /\ clients' = clients]_vars

\* filesystem waits in backoff while memory, which would answer at once,
\* has not been started
C24_Witness ==
  /\ mpc = "backoff"
  /\ cur.name = "filesystem"
  /\ Waiting = {"memory"}
  /\ srvKind["memory"] = "good"
  /\ getClient("memory") = NoClient

\* the number of calls of an operation so far
Calls(op) == Cardinality({i \in DOMAIN history : history[i] = op})

\* C25 as stated: a server whose connect() has thrown is never again listed
\* by getAvailableServers() and no further connection attempt is made for
\* it, whatever the supervisor does afterwards.
C25_ExhaustedForever ==
  \A n \in exhausted :
    /\ n \notin getAvailableServers
    /\ cur # NoClient => cur.name # n

\* C25 as amended: the exclusion lasts until initialize() is called again.
\* On a supervisor whose initialize() has been called once, a server whose
\* connect() has thrown is not listed by getAvailableServers(), no client is
\* held for it and no further attempt is made for it, whatever shutdown()
\* and tool calls follow.
C25_ExhaustedUntilReinitialized ==
  Calls("initialize") = 1 =>
    \A n \in exhausted :
      /\ n \notin getAvailableServers
      /\ getClient(n) = NoClient
      /\ cur # NoClient => cur.name # n

\* filesystem exhausted its retries, memory was connected, and a later
\* shutdown() has returned
C25_Witness ==
  /\ Returned("shutdown")
  /\ Calls("initialize") = 1
  /\ exhausted = {"filesystem"}
  /\ srvKind["filesystem"] # "good"
  /\ tries = 0
  /\ lastShutdown # NoShutdown

\* a later initialize() attempts the exhausted server afresh and connects it
C25_WitnessReconnected ==
  /\ Calls("initialize") = 2
  /\ "filesystem" \in exhausted
  /\ "filesystem" \in getAvailableServers

\* every MCPClient object there is: held by the supervisor, being connected
\* by initialize(), or dropped while still live
AllClients ==
  {clients[i][2] : i \in DOMAIN clients} \cup orphans
    \cup (IF cur = NoClient THEN {} ELSE {cur})

\* C26: a client whose connected flag is set holds a protocol client that
\* completed its handshake and an open transport (both non-null); the flag
\* of the client being connected is set only after the probe of the current
\* attempt was attempted, so never in the catch block of an attempt that
\* failed or timed out, whatever its handshake does afterwards.
C26_ConnectedImpliesHandshake ==
  /\ \A c \in AllClients :
       c.isConnected => c.client = "connected" /\ c.transport = "open"
  /\ cur # NoClient /\ cur.isConnected =>
       /\ mpc = "connected"
       /\ probe \in {"ok", "rejected"}
  /\ (cur # NoClient /\ mpc \in {"catch", "backoff", "cleanup"}) =>
       ~cur.isConnected

\* the handshake of an attempt that timed out completes during the backoff
C26_Witness ==
  /\ mpc = "backoff"
  /\ lastError = ConnectionTimeoutMsg
  /\ cur.client = "connected"
  /\ cur.transport = "open"
  /\ ~cur.isConnected

\* a client becomes connected after an earlier attempt timed out
C26_WitnessConnected ==
  /\ mpc = "connected"
  /\ cur.isConnected
  /\ lastError = ConnectionTimeoutMsg
  /\ probe = "rejected"

InitScan ==
  /\ ProcessorNotBuilt
  /\ BatchNotUsed
  /\ impl = "McpManager"
  /\ mgrOptions = NoOptions
  /\ srvKind = [n \in ServerNames |-> "good"]
  /\ mcpClients = <<>>
  /\ mcpOrphans = {}
  /\ lastTools = NoTools
  /\ escaped = "none"
  /\ clients = <<>>
  /\ orphans = {}
  /\ mpc = "idle"
  /\ enabledLocal = <<>>
  /\ idx = 0
  /\ cur = NoClient
  /\ attempt = 0
  /\ lastError = <<>>
  /\ delays = <<>>
  /\ tries = 0
  /\ probe = "none"
  /\ history = <<>>
  /\ lastShutdown = NoShutdown
  /\ lastRpc = NoCall
  /\ exhausted = {}
  /\ variant = "three"
  /\ llmConfig = [maxSteps |-> maxStepsDefault]
  /\ AnalyzeNotStarted
  /\ ClientNotUsed
  /\ CliNotStarted
  /\ tree \in Trees
  /\ scanOptions \in [includeHidden : BOOLEAN,
                      ignorePatterns : {UndefList, List(<<"node_modules">>)},
                      maxFileSize : {Undef}]
  /\ scanned = NoScan
  /\ validated = [called |-> FALSE, stat |-> "none", error |-> NoErr]

NextScan ==
  \/ scan
  \/ validateDirectory

SpecScan == InitScan /\ [][NextScan]_vars

\* scanDirectory looks into the entry (it is neither hidden nor ignored)
Visited(relativePath) ==
  /\ \A i \in DOMAIN relativePath :
       scanOptions.includeHidden \/ ~relativePath[i].dot
  /\ ~shouldIgnore(relativePath)

\* a file scan() has to report: readable, small enough, of a supported type
Accepted(entry) ==
  /\ entry.kind = "file"
  /\ entry.stat = "ok"
  /\ entry.size <= defaultMaxFileSize
  /\ entry.name.ext \in SupportedFileExtensions

\* how often a message is in the error list
Occurrences(errors, m) == Cardinality({k \in DOMAIN errors : errors[k] = m})

\* C28: scan() does not throw when a readdir fails.  If the failing
\* directory is the root, the result has exactly the one error naming the
\* failure, no files and totalFiles 0.  If it is a sub-directory, the error
\* naming it is recorded once and every reportable file, in the siblings
\* before and after it and in the other sub-directories, is still in files.
C28_ScanSurvivesReaddirFailure ==
  scanned.called =>
    /\ scanned.error = NoErr
    /\ tree.readdir # "ok" =>
         /\ scanned.result.errors = <<ReadFailure(<<RootName>>, tree.readdir)>>
         /\ scanned.result.files = <<>>
         /\ scanned.result.totalFiles = 0
    /\ \A i \in DOMAIN tree.entries :
         LET e == tree.entries[i] IN
           Visited(<<e.name>>) =>
             /\ (e.kind = "dir" /\ e.readdir # "ok") =>
                  Occurrences(scanned.result.errors,
                              ReadFailure(<<RootName, e.name>>, e.readdir)) = 1
             /\ Accepted(e) =>
                  \E k \in DOMAIN scanned.result.files :
                    scanned.result.files[k].filePath = <<e.name>>
             /\ \A j \in DOMAIN e.entries :
                  (Accepted(e.entries[j]) /\ Visited(<<e.name, e.entries[j].name>>)) =>
                    \E k \in DOMAIN scanned.result.files :
                      scanned.result.files[k].filePath = <<e.name, e.entries[j].name>>

\* the first entry is a sub-directory that cannot be read, the second a
\* file that is reported
C28_Witness ==
  /\ scanned.called
  /\ Len(tree.entries) = 2
  /\ tree.entries[1].kind = "dir"
  /\ tree.entries[1].readdir = PermissionDenied
  /\ Visited(<<tree.entries[1].name>>)
  /\ Accepted(tree.entries[2])
  /\ scanned.result.totalFiles = 1
  /\ Len(scanned.result.errors) = 1

\* the root itself cannot be read
C28_WitnessRoot ==
  /\ scanned.called
  /\ tree.readdir = PermissionDenied
  /\ Len(scanned.result.errors) = 1

\* C29: validateDirectory succeeds exactly when the path exists and is a
\* directory; an existing non-directory fails with FileSystemError 'Path is
\* not a directory', a path stat cannot reach with FileSystemError 'Cannot
\* access directory'; no other type of error leaves the function.
C29_ValidateDirectory ==
  validated.called =>
    /\ (validated.error = NoErr) = (validated.stat = "directory")
    /\ validated.error.type \in {"none", "FileSystemError"}
    /\ validated.stat = "file" =>
         validated.error = Err("FileSystemError", <<"Path is not a directory">>)
    /\ validated.stat \in {"ENOENT", "EACCES"} =>
         /\ validated.error.type = "FileSystemError"
         /\ validated.error.message[1] = "Cannot access directory"

\* an existing file is given and rejected
C29_Witness ==
  /\ validated.called
  /\ validated.stat = "file"
  /\ validated.error.type = "FileSystemError"

\* a path that does not exist is given
C29_WitnessInaccessible ==
  /\ validated.called
  /\ validated.stat = "ENOENT"
  /\ validated.error.message = <<"Cannot access directory", "ENOENT">>

InitClient ==
  /\ ProcessorNotBuilt
  /\ BatchNotUsed
  /\ impl = "MCPManager"
  /\ mgrOptions = NoOptions
  /\ srvKind \in {k \in [ServerNames -> {"good", "flaky"}] : k["memory"] = "good"}
  /\ mcpClients = <<>>
  /\ mcpOrphans = {}
  /\ lastTools = NoTools
  /\ escaped = "none"
  /\ clients = <<>>
  /\ orphans = {}
  /\ mpc = "idle"
  /\ enabledLocal = <<>>
  /\ idx = 0
  /\ cur = NoClient
  /\ attempt = 0
  /\ lastError = <<>>
  /\ delays = <<>>
  /\ tries = 0
  /\ probe = "none"
  /\ history = <<>>
  /\ lastShutdown = NoShutdown
  /\ lastRpc = NoCall
  /\ exhausted = {}
  /\ variant = "three"
  /\ llmConfig = [maxSteps |-> maxStepsDefault]
  /\ AnalyzeNotStarted
  /\ ScanNotUsed
  /\ CliNotStarted
  /\ mc \in {DirectClient([retryAttempts |-> Num(k)]) : k \in {1, 2}}
  /\ sdk = <<>>
  /\ th = [t \in Threads |-> IdleThread]
  /\ made = 0

NextClient ==
  \/ \E t \in Threads : MCPClient_connect(t)
  \/ \E t \in Threads : MCPClient_attemptConnection(t)
  \/ \E t \in Threads : MCPClient_handshake(t)
  \/ \E t \in Threads : MCPClient_handshake_rejects(t)
  \/ \E t \in Threads : MCPClient_timeout(t)
  \/ \E t \in Threads : MCPClient_probe(t)
  \/ \E t \in Threads : MCPClient_connected(t)
  \/ \E t \in Threads : MCPClient_catch(t)
  \/ \E t \in Threads : MCPClient_backoff(t)
  \/ \E t \in Threads : MCPClient_cleanup(t)
  \/ \E t \in Threads : MCPClient_cleanup_client(t)
  \/ \E t \in Threads : MCPClient_cleanup_transport(t)
  \/ \E t \in Threads : MCPClient_disconnect(t)
  \/ MCPClient_request_catch

SpecClient == InitClient /\ [][NextClient]_vars

\* the disconnect() call of caller t settles in this step, with no other
\* call in flight
DisconnectSettles(t) ==
  /\ th'[t] # th[t]
  /\ th'[t].op = "disconnect"
  /\ th'[t].pc = "idle"
  /\ \A u \in Threads \ {t} : th[u].pc = "idle" /\ th'[u] = th[u]

\* C27: disconnect() closes the protocol client first and the transport
\* second, a second call and a call on a client that never connected close
\* nothing, no call throws, and when disconnect() has returned both handles
\* of the client are released (null).
C27_DisconnectReleasesBoth ==
  [][/\ \A t \in Threads :
          DisconnectSettles(t) =>
            /\ th'[t].result = "returned"
            /\ mc'.client = 0
            /\ mc'.transport = 0
            /\ (th[t].pc = "idle" => sdk' = sdk)
     /\ \A t \in Threads, i \in DOMAIN sdk :
          (th[t].op = "disconnect" /\ th'[t] # th[t]
             /\ sdk[i].transport # "closed"
             /\ sdk'[i].transport = "closed") => sdk[i].client = "closed"]_vars

\* the transports with a running subprocess
OpenTransports == {i \in DOMAIN sdk : sdk[i].transport = "open"}

\* C30: the client owns at most one open transport, the one its field
\* references, and a new transport is created only when no transport of
\* the client is open.
C30_AtMostOneOpenTransport ==
  [][/\ Cardinality(OpenTransports) <= 1
     /\ OpenTransports \subseteq {mc.transport}
     /\ Len(sdk') > Len(sdk) => OpenTransports = {}]_vars

\* C31: every connected client is held in the client map of its supervisor,
\* so that the next shutdown reaches it: no client that initialize() (or
\* initializeServers()) replaced in the map is still connected.
C31_ConnectedClientsAreHeld ==
  /\ \A c \in orphans : ~c.isConnected
  /\ Calls("shutdownServers") = 0 => mcpOrphans = {}

InitCli ==
  /\ ProcessorNotBuilt
  /\ BatchNotUsed
  /\ impl = "McpManager"
  /\ mgrOptions = NoOptions
  /\ srvKind = [n \in ServerNames |-> "good"]
  /\ mcpClients = <<>>
  /\ mcpOrphans = {}
  /\ lastTools = NoTools
  /\ escaped = "none"
  /\ clients = <<>>
  /\ orphans = {}
  /\ mpc = "idle"
  /\ enabledLocal = <<>>
  /\ idx = 0
  /\ cur = NoClient
  /\ attempt = 0
  /\ lastError = <<>>
  /\ delays = <<>>
  /\ tries = 0
  /\ probe = "none"
  /\ history = <<>>
  /\ lastShutdown = NoShutdown
  /\ lastRpc = NoCall
  /\ exhausted = {}
  /\ variant = "three"
  /\ llmConfig = [maxSteps |-> maxStepsDefault]
  /\ AnalyzeNotStarted
  /\ ClientNotUsed
  /\ ScanNotUsed
  /\ cliVersion \in {"current", "earlier"}
  /\ faults \in SUBSET Throwing(cliVersion)
  /\ cpc = "start"
  /\ cliLog = <<>>
  /\ exitCode = -1

NextCli ==
  \/ handleAnalyzeCommand
  \/ handleAnalyzeCommand_await
  \/ handleError
  \/ handleAnalyzeCommand_finally
  \/ main_catch
  \/ main_returns

SpecCli == InitCli /\ [][NextCli]_vars

\* the analyze command has invoked the call
Invoked(call) == \E i \in DOMAIN cliLog : cliLog[i] = call

\* C32: when the process of an analyze command has ended and the command
\* had initialized the MCP servers (the initializing call was invoked and
\* returned), the shutdown of the supervisor was invoked before the end,
\* whether the run succeeded or a later call threw.
C32_ShutdownBeforeExit ==
  (/\ cpc = "ended"
   /\ Invoked(InitializeCall(cliVersion))
   /\ InitializeCall(cliVersion) \notin faults)
    => Invoked(ShutdownCall(cliVersion))

\* C33: a request method called on a held client whose connected flag is
\* false fails with 'not connected' and sends nothing; a server whose
\* client has the flag false is not in getAvailableServers(); and the flag
\* of a client becomes true only where connect() succeeded, so a server
\* becomes available only when initialize() stores such a client.
C33_DisconnectedStaysUnused ==
  [][/\ (mpc = "idle" /\ lastRpc' # lastRpc /\ lastRpc'.method \in RpcMethods
           /\ getClient(lastRpc'.server) # NoClient
           /\ ~getClient(lastRpc'.server).isConnected) =>
          /\ lastRpc'.result = "notConnected"
          /\ lastRpc'.requests = 0
          /\ mpc' = "idle"
          /\ clients' = clients
     /\ \A i \in DOMAIN clients :
          ~clients[i][2].isConnected => clients[i][1] \notin getAvailableServers
     /\ (cur # NoClient /\ ~cur.isConnected /\ cur' # NoClient
           /\ cur'.isConnected) =>
          mpc = "attemptOk" /\ cur.client = "connected"
     /\ \A n \in ServerNames :
          (~isServerAvailable(n) /\ isServerAvailable(n)') =>
            /\ mpc = "connected"
            /\ cur.isConnected
            /\ clients' = MapSet(clients, n, cur)]_vars

\* getResource is called on a client that a failed tool call had marked
\* disconnected, and is refused without a request
C33_Witness ==
  /\ mpc = "idle"
  /\ lastRpc.method = "getResource"
  /\ lastRpc.result = "notConnected"
  /\ lastRpc.requests = 0
  /\ getClient(lastRpc.server) # NoClient
  /\ getClient(lastRpc.server).client = "connected"
  /\ ~getClient(lastRpc.server).isConnected

\* C34: a callTool or listTools that fails with an error the server reports
\* about the call (neither a timeout nor a failure of the connection)
\* leaves the client as it was: connected flag, protocol client and
\* transport are unchanged.
C34_ServerErrorsKeepConnection ==
  [][(/\ mpc = "rpc"
      /\ mpc' = "idle"
      /\ Classifies(lastRpc.method)
      /\ lastRpc'.result = "failed"
      /\ lastRpc'.msg \in ServerReportedMsgs) => clients' = clients]_vars

\* C35: analyze() fails with an LLMAnalysisError only: when a phase throws
\* an LLMAnalysisError, analyze() throws that very error; when a phase
\* throws anything else, analyze() throws a new LLMAnalysisError whose
\* details carry what the phase threw as originalError.
C35_OnlyLLMAnalysisError ==
  [][/\ thrown' # NoError =>
          /\ thrown'.name = "LLMAnalysisError"
          /\ thrown'.code = "LLM_ANALYSIS_ERROR"
     /\ (apc = "generateText" /\ apc' = "threw") =>
          \/ /\ thrown' \in AnalysisErrors
             /\ "originalError" \notin DOMAIN thrown'.details
          \/ /\ thrown'.details.originalError \in Causes
             /\ thrown'.details.originalError.name # "LLMAnalysisError"
             /\ thrown'.message[1] = "LLM analysis failed:"]_vars

\* a phase threw an LLMAnalysisError and analyze() threw it unchanged
C35_Witness ==
  /\ apc = "threw"
  /\ thrown \in AnalysisErrors

\* a phase threw a value that is no Error and analyze() threw it wrapped
C35_WitnessWrapped ==
  /\ apc = "threw"
  /\ thrown.name = "LLMAnalysisError"
  /\ ~thrown.details.originalError.isError
  /\ thrown.message = <<"LLM analysis failed:", "Unknown error during LLM analysis">>

\* C36: a constructor that fails validation throws an LLMAnalysisError and
\* leaves no telemetry SDK started; the SDK is started only while a
\* successfully constructed processor exists, and a cleanup() that met no
\* failure has flushed the exporter and shut the SDK down.
C36_NoTelemetryWithoutProcessor ==
  /\ ppc = "threw" =>
       /\ ctorThrown.name = "LLMAnalysisError"
       /\ otel # "started"
  /\ otel = "started" => ppc \in {"constructed", "forceFlush", "shutdown", "cleaned"}
  /\ (ppc = "cleaned" /\ cleanupWarnings = 0) =>
       /\ exporterFlushed
       /\ otel = "shutdown"

\* the requests whose analyzeFile call is in progress
InFlight == {j \in 1..Len(requests) : analysis[j].state = "pending"}

\* the requests whose analyzeFile call has been made
Called == {j \in 1..Len(requests) : analysis[j].state # "idle"}

\* the number of the batch request j belongs to
BatchOf(j) == (j - 1) \div batchSize

\* C37: batchAnalyze takes the requests in consecutive batches of at most
\* batchSize; a call of a later batch is made only when every call of the
\* batches before has settled; a failed analysis contributes no rules and
\* batchAnalyze never fails because of it; the returned rules are those of
\* the successful analyses, in request order.
C37_BatchesInOrder ==
  /\ Cardinality(InFlight) <= batchSize
  /\ \A j \in InFlight : \A k \in InFlight : BatchOf(j) = BatchOf(k)
  /\ \A j \in Called : \A k \in 1..Len(requests) :
       /\ BatchOf(k) < BatchOf(j) => analysis[k].state \in {"resolved", "rejected"}
       /\ BatchOf(k) = BatchOf(j) => k \in Called
  /\ bpc \in {"new", "all", "delay", "returned"}
  /\ \A a \in 1..Len(allRules) : \A b \in a..Len(allRules) :
       /\ allRules[a].source.file <= allRules[b].source.file
       /\ analysis[allRules[a].source.file].state = "resolved"
  /\ bpc = "returned" =>
       /\ InFlight = {}
       /\ Called = 1..Len(requests)
       /\ allRules = Flat(analysis, 1, Len(requests))
       /\ \A j \in 1..Len(requests) :
            analysis[j].state = "rejected" =>
               \A a \in 1..Len(allRules) : allRules[a].source.file # j

\* a run of two batches has returned: a file of the first batch failed, the
\* first batch settled last-to-first, and rules of both batches came back
C37_Witness ==
  /\ bpc = "returned"
  /\ Len(requests) > batchSize
  /\ analysis[1].state = "rejected"
  /\ batchWarnings # <<>>
  /\ batchWarnings[1] > 1
  /\ analysis[2].state = "resolved"
  /\ analysis[Len(requests)].state = "resolved"
  /\ allRules[1].source.file = 2
  /\ allRules[Len(allRules)].source.file = Len(requests)

\* the second batch is in flight after the first has settled
C37_WitnessSecondBatch ==
  /\ bpc = "all"
  /\ bi = batchSize
  /\ InFlight # {}
====
